---- MODULE Spec2Model ----
(***************************************************************************)
(* RaceFlow: the single-route MapView component (src/src/components/       *)
(* MapView.tsx) with the simulation helpers it calls (sim.ts, route.ts).   *)
(*                                                                         *)
(* Units.  Simulated time is counted in ticks, TicksPerSecond to the       *)
(* second, so that frames closer together than SAMPLE_INTERVAL_SECONDS     *)
(* exist.  Lengths are metres; a length that need not be whole is a        *)
(* rational [n, d] in lowest terms with d > 0.  A density is held as a     *)
(* whole number of 1/DensityDen runners per metre; every segment length of *)
(* SegmentLengths is a power of two, so each density count/length and each *)
(* sum of them is a dyadic rational that the Float32Array and Float64Array *)
(* cells of the component hold exactly.                                    *)
(*                                                                         *)
(* Geometry.  Route points are held in the local planar frame (metres      *)
(* east, metres north) that lines 146-164 and 391-394 project latitude and *)
(* longitude to; the legs of every route are parallel to an axis, so the   *)
(* length haversineMeters gives a leg is the whole number of metres        *)
(* between its end points.                                                 *)
(*                                                                         *)
(* React.  A render whose props differ runs the effects of the component   *)
(* in the order they are written: the statistic reset (lines 271-288) when *)
(* one of its dependencies changed, then draw from each of the two effects *)
(* of lines 624-639.  `pending` lists the effects still to run; no render  *)
(* and no map event is taken before it is empty.                           *)
(*                                                                         *)
(* Specifications.  Spec is the component under every change of its props. *)
(* SpecCourse is the component on a course whose segments share groups,    *)
(* under frames only.  SpecGroups runs the loop of segmentSpatialGroups    *)
(* (lines 199-251) one segment at a time, on routes given in grid steps of *)
(* 1/GridPerMetre m.  SpecProximity runs the pair loop of lines 398-410    *)
(* one pair at a time, and SpecReport samples one segment frame by frame   *)
(* and reports its percentile and top-fraction values (lines 513-536).     *)
(* SpecEmpty is the component under frames and changes of route and        *)
(* runners, routes without a length among them.  SpecSim takes one call of *)
(* a function of sim.ts or route.ts, or one division of draw, from its     *)
(* arguments to its result.  SpecSettings and SpecPlay are the App         *)
(* (src/src/App.tsx) under its two configuration setters and under its     *)
(* playback controls, SpecRun the App with Run Example Simulation beside   *)
(* them.  SpecRebuild follows the segmentSpatialGroups memo over changes   *)
(* of its inputs.  SpecGeometry follows the geometry memo of the           *)
(* multi-course MapView (src/unnamed/part_002 lines 325-411) one segment   *)
(* at a time, and SpecHeat is that MapView under frames, map events and    *)
(* changes of its courses, with time in microseconds.  SpecWaves is the    *)
(* WaveEditor (src/src/components/WaveEditor.tsx) of one course.           *)
(***************************************************************************)
EXTENDS Integers, Sequences, FiniteSets, TLC

\* ------------------------------------------------------------- bounds
TicksPerSecond == 2
MaxTick == 2
MaxFrames == 3
MaxChanges == 1

\* ------------------------------------------------- program constants
HIST_BINS_PER_UNIT == 4
HIST_MAX_VALUE == 50
WINDOW_SECONDS == 180
SAMPLE_INTERVAL_SECONDS == 1

HIST_BIN_COUNT == HIST_MAX_VALUE * HIST_BINS_PER_UNIT + 1

\* ------------------------------------------------------------ numbers
Min(a, b) == IF a <= b THEN a ELSE b
Max(a, b) == IF a >= b THEN a ELSE b
Abs(a) == IF a < 0 THEN -a ELSE a

RECURSIVE Gcd(_, _)
Gcd(a, b) == IF b = 0 THEN a ELSE Gcd(b, a % b)

\* The rational n / d (d > 0) in lowest terms: one number, one record.
Rat(n, d) ==
  LET g == Gcd(Abs(n), d)
  IN  [n |-> n \div g, d |-> d \div g]
RatInt(k) == [n |-> k, d |-> 1]
RatLeq(a, b) == a.n * b.d <= b.n * a.d
RatLess(a, b) == a.n * b.d < b.n * a.d
RatEq(a, b) == a.n * b.d = b.n * a.d
RatSub(a, b) == Rat(a.n * b.d - b.n * a.d, a.d * b.d)
RatAdd(a, b) == Rat(a.n * b.d + b.n * a.d, a.d * b.d)
RatMul(a, b) == Rat(a.n * b.n, a.d * b.d)
\* Math.floor of a rational with positive denominator.
RatFloor(a) == a.n \div a.d
\* The two results of a division by zero: 0 / 0 and k / 0 with k > 0.
NaN == [n |-> 0, d |-> 0]
Infinity == [n |-> 1, d |-> 0]
\* a / b for whole a >= 0 and b >= 0, as JavaScript divides.
Divide(a, b) ==
  IF b = 0 THEN (IF a = 0 THEN NaN ELSE Infinity) ELSE Rat(a, b)

\* A JavaScript array or typed array: a function on 0 .. length-1.
Length(arr) == Cardinality(DOMAIN arr)
NewArray(len, v) == [i \in 0 .. len - 1 |-> v]
EmptyArray == NewArray(0, 0)
\* Array.prototype.push and shift on an array held as a function on 0 .. n-1.
Push(arr, v) == [i \in 0 .. Length(arr) |-> IF i < Length(arr) THEN arr[i] ELSE v]
Shift(arr) == [i \in 0 .. Length(arr) - 2 |-> arr[i + 1]]

\* ----------------------------------------------------------- sim.ts
\* A runner is [startTimeSeconds (in ticks), paceSecPerKm]; tSec is in ticks.
\* Line 50 left out: a runner past the finish keeps running.
runnerDistanceMetersPastFinish(runner, tSec, routeLenMeters) ==
  LET elapsed == Max(0, tSec - runner.startTimeSeconds)
      d == Divide(elapsed * 1000, runner.paceSecPerKm * TicksPerSecond)
  IN  IF d = NaN THEN NaN
      ELSE IF d = Infinity THEN Infinity
      ELSE IF RatLeq(d, RatInt(0)) THEN RatInt(0)
      ELSE d

\* With paceSecPerKm = 0 line 47 gives speedMps = Infinity and line 48 gives
\* d = Infinity, or NaN when elapsed = 0; NaN fails both tests of lines
\* 49-50 and is returned.
runnerDistanceMeters(runner, tSec, routeLenMeters) ==
  LET elapsed == Max(0, tSec - runner.startTimeSeconds)
      d == Divide(elapsed * 1000, runner.paceSecPerKm * TicksPerSecond)
  IN  IF d = NaN THEN NaN
      ELSE IF d = Infinity THEN RatInt(routeLenMeters)
      ELSE IF RatLeq(d, RatInt(0)) THEN RatInt(0)
      ELSE IF RatLeq(RatInt(routeLenMeters), d) THEN RatInt(routeLenMeters)
      ELSE d

\* ---------------------------------------------------------- route.ts
\* The binary search of positionAtDistance: the least index whose cumdist
\* is not below clamped.
RECURSIVE BinarySearch(_, _, _, _)
BinarySearch(cumdist, clamped, lo, hi) ==
  IF lo < hi
  THEN LET mid == (lo + hi) \div 2
       IN  IF RatLess(RatInt(cumdist[mid]), clamped)
           THEN BinarySearch(cumdist, clamped, mid + 1, hi)
           ELSE BinarySearch(cumdist, clamped, lo, mid)
  ELSE lo

\* Lines 77-88: the index of the point that ends the bracketing leg.
BracketIndex(cumdist, clamped, n) == Max(1, BinarySearch(cumdist, clamped, 0, n - 1))

\* Line 75 left out: dMeters is not clamped to the route.
positionAtDistanceUnclamped(points, cumdist, dMeters) ==
  LET n == Length(points)
  IN  IF n = 0 THEN [x |-> RatInt(0), y |-> RatInt(0)]
      ELSE IF n = 1 THEN [x |-> RatInt(points[0].x), y |-> RatInt(points[0].y)]
      ELSE
        LET i == BracketIndex(cumdist, dMeters, n)
            d0 == cumdist[i - 1]
            span == cumdist[i] - d0
            a == points[i - 1]
            b == points[i]
            tn == dMeters.n - d0 * dMeters.d
            td == span * dMeters.d
        IN  IF span <= 0
            THEN [x |-> RatInt(b.x), y |-> RatInt(b.y)]
            ELSE [x |-> Rat(a.x * td + (b.x - a.x) * tn, td),
                  y |-> Rat(a.y * td + (b.y - a.y) * tn, td)]

positionAtDistance(points, cumdist, dMeters) ==
  LET n == Length(points)
  IN  IF n = 0 THEN [x |-> RatInt(0), y |-> RatInt(0)]
      ELSE IF n = 1 THEN [x |-> RatInt(points[0].x), y |-> RatInt(points[0].y)]
      ELSE
        LET last == RatInt(cumdist[n - 1])
            low == IF RatLeq(dMeters, last) THEN dMeters ELSE last
            clamped == IF RatLeq(RatInt(0), low) THEN low ELSE RatInt(0)
            i == BracketIndex(cumdist, clamped, n)
            d0 == cumdist[i - 1]
            d1 == cumdist[i]
            span == d1 - d0
            a == points[i - 1]
            b == points[i]
            \* t = (clamped - d0) / span, as the rational tn / td
            tn == clamped.n - d0 * clamped.d
            td == span * clamped.d
        IN  IF span <= 0
            THEN [x |-> RatInt(b.x), y |-> RatInt(b.y)]
            ELSE [x |-> Rat(a.x * td + (b.x - a.x) * tn, td),
                  y |-> Rat(a.y * td + (b.y - a.y) * tn, td)]

\* buildCumulativeDistances over planar points whose legs are axis-parallel.
RECURSIVE CumulativeFrom(_, _, _)
CumulativeFrom(points, i, acc) ==
  IF i >= Length(points) THEN acc
  ELSE LET leg == Abs(points[i].x - points[i - 1].x) + Abs(points[i].y - points[i - 1].y)
       IN  CumulativeFrom(points, i + 1, Push(acc, acc[i - 1] + leg))

buildCumulativeDistances(points) ==
  IF Length(points) < 2
  THEN [points |-> points, cumdist |-> NewArray(1, 0), total |-> 0]
  ELSE LET cumdist == CumulativeFrom(points, 1, NewArray(1, 0))
       IN  [points |-> points, cumdist |-> cumdist, total |-> cumdist[Length(points) - 1]]

\* ------------------------------------------------------ the inputs
\* The parent hands MapView its route and its runner list by reference: a
\* route id or a runner-set id stands for one object; 0 is null / [].
Pt(x, y) == [x |-> x, y |-> y]
Arr2(a, b) == [i \in 0 .. 1 |-> IF i = 0 THEN a ELSE b]
Arr3(a, b, c) == [i \in 0 .. 2 |-> IF i = 0 THEN a ELSE IF i = 1 THEN b ELSE c]

Arr4(a, b, c, d) ==
  [i \in 0 .. 3 |-> IF i = 0 THEN a ELSE IF i = 1 THEN b ELSE IF i = 2 THEN c ELSE d]

\* Routes 1 and 2 are the routes MapView is rendered with.  Routes 3 to 5
\* go out along a street and come back along it, `gap` metres to the side.
\* Route 6 is a lane around a yard, given on a grid of 1/40 m: its first
\* 3 m lead around a corner post from (81, 59) to (121, 99), and 18 m later
\* it passes (59, 121) and leaves northwards.  Route 7 is a single point
\* and route 8 is one point twice: neither has a length.
RouteIds == {1, 2}
OutAndBackIds == {3, 4, 5}
YardIds == {6}
EmptyRouteIds == {7, 8}
OutAndBack(length, gap) ==
  Arr4(Pt(0, 0), Pt(length, 0), Pt(length, gap), Pt(0, gap))
Yard ==
  [i \in 0 .. 7 |->
     IF i = 0 THEN Pt(81, 59) ELSE IF i = 1 THEN Pt(81, 39)
     ELSE IF i = 2 THEN Pt(121, 39) ELSE IF i = 3 THEN Pt(121, 99)
     ELSE IF i = 4 THEN Pt(439, 99) ELSE IF i = 5 THEN Pt(439, 121)
     ELSE IF i = 6 THEN Pt(59, 121) ELSE Pt(59, 241)]
RoutePoints(id) ==
  IF id = 1 THEN Arr2(Pt(0, 0), Pt(3, 0))
  ELSE IF id = 2 THEN Arr3(Pt(0, 0), Pt(1, 0), Pt(1, 1))
  ELSE IF id = 3 THEN OutAndBack(12, 1)
  ELSE IF id = 4 THEN OutAndBack(12, 2)
  ELSE IF id = 5 THEN OutAndBack(13, 1)
  ELSE IF id = 6 THEN Yard
  ELSE IF id = 7 THEN NewArray(1, Pt(1, 1))
  ELSE Arr2(Pt(1, 1), Pt(1, 1))
\* The grid steps to the metre of RoutePoints(id), cumdist and total.
RouteUnits(id) == IF id \in YardIds THEN 40 ELSE 1
RouteOf(id) == buildCumulativeDistances(RoutePoints(id))

NewRunner(start, pace) == [startTimeSeconds |-> start, paceSecPerKm |-> pace]
RunnerSetIds == {1, 2}
\* Runner set 3 is a pair of walkers and a runner who starts when the
\* window of WINDOW_SECONDS has just gone by.
RunnersOf(id) ==
  IF id = 0 THEN EmptyArray
  ELSE IF id = 1 THEN NewArray(1, NewRunner(0, 500))
  ELSE IF id = 2 THEN Arr2(NewRunner(0, 500), NewRunner(1, 1000))
  ELSE Arr3(NewRunner(0, 18100), NewRunner(0, 18100),
            NewRunner(WINDOW_SECONDS * TicksPerSecond + 1, 1000))

SegmentLengths == {1, 2}
DensityRadii == {1, 2}
AverageModes == {"active_avg", "window"}
HeatMetrics == {"average", "max"}
WindowTicks == WINDOW_SECONDS * TicksPerSecond
SampleIntervalTicks == SAMPLE_INTERVAL_SECONDS * TicksPerSecond
SimTimes == (0 .. MaxTick) \cup {WindowTicks + 2, WindowTicks + 3}

\* The least common multiple of the segment lengths: densities are whole
\* multiples of 1 / DensityDen.
DensityDen ==
  CHOOSE m \in 1 .. 64 :
    /\ \A l \in SegmentLengths : m % l = 0
    /\ \A k \in 1 .. m - 1 : \E l \in SegmentLengths : k % l # 0
\* count / segmentLengthMeters, in units of 1 / DensityDen.
Density(count, segmentLengthMeters) == count * (DensityDen \div segmentLengthMeters)

\* ------------------------------------------- MapView: derived values
\* Math.ceil(a / b) for a >= 0, b > 0.
CeilDiv(a, b) == (a + b - 1) \div b

SegmentCount(routeId, segmentLengthMeters) ==
  IF routeId = 0 THEN 0
  ELSE Max(1, CeilDiv(RouteOf(routeId).total, segmentLengthMeters * RouteUnits(routeId)))

\* The breakpoints, in metres.
segmentBreakpoints(routeId, segmentLengthMeters) ==
  IF routeId = 0 \/ RouteOf(routeId).total <= 0 THEN EmptyArray
  ELSE LET route == RouteOf(routeId)
           units == RouteUnits(routeId)
           step == segmentLengthMeters * units
           count == Max(1, CeilDiv(route.total, step))
           At(i) == positionAtDistance(route.points, route.cumdist,
                                       RatInt(Min(route.total, i * step)))
       IN  [i \in 0 .. count |->
              [x |-> Rat(At(i).x.n, At(i).x.d * units),
               y |-> Rat(At(i).y.n, At(i).y.d * units)]]

\* ------------------------------------- MapView: draw, lines 349-410
\* The scratch buffers grow and never shrink (lines 351-358).
GrowBuffer(buf, runnerCount) ==
  IF Length(buf) < runnerCount THEN NewArray(runnerCount, RatInt(0)) ELSE buf

\* The first loop (lines 385-396): distance, position, density 1 per runner.
RunnerPositions(r, routeId, runnerSetId, simTime) ==
  LET route == RouteOf(routeId)
      rs == RunnersOf(runnerSetId)
      runnerCount == Length(rs)
      d == [i \in 0 .. runnerCount - 1 |->
              runnerDistanceMeters(rs[i], simTime, route.total)]
      pos == [i \in 0 .. runnerCount - 1 |->
                positionAtDistance(route.points, route.cumdist, d[i])]
      Fill(buf, v) == [i \in DOMAIN GrowBuffer(buf, runnerCount) |->
                         IF i < runnerCount THEN v[i] ELSE GrowBuffer(buf, runnerCount)[i]]
  IN  [r EXCEPT !.distances = Fill(r.distances, d),
                !.xs = Fill(r.xs, [i \in 0 .. runnerCount - 1 |-> pos[i].x]),
                !.ys = Fill(r.ys, [i \in 0 .. runnerCount - 1 |-> pos[i].y]),
                !.densityPerRunner =
                   Fill(r.densityPerRunner, [i \in 0 .. runnerCount - 1 |-> RatInt(1)])]

\* 1 / Math.max(1e-6, densityRadiusMeters), for a whole radius.
InvDensityRadius(densityRadiusMeters) ==
  IF densityRadiusMeters >= 1 THEN Rat(1, densityRadiusMeters) ELSE RatInt(1000000)

WithinRadius(xs, ys, i, j, densityRadiusMeters) ==
  LET dx == RatSub(xs[i], xs[j])
      dy == RatSub(ys[i], ys[j])
  IN  RatLeq(RatAdd(RatMul(dx, dx), RatMul(dy, dy)),
             RatInt(densityRadiusMeters * densityRadiusMeters))

\* Lines 402-407 with line 406 dropped: only runner i is credited.
PairCountedOneWay(dens, xs, ys, i, j, radius) ==
  IF WithinRadius(xs, ys, i, j, radius)
  THEN [dens EXCEPT ![i] = RatAdd(@, RatInt(1))]
  ELSE dens

\* Lines 402-407: the test of one pair i < j and what it adds.
PairCounted(dens, xs, ys, i, j, radius) ==
  IF WithinRadius(xs, ys, i, j, radius)
  THEN [dens EXCEPT ![i] = RatAdd(@, RatInt(1)), ![j] = RatAdd(@, RatInt(1))]
  ELSE dens

\* Line 409 moved before the pair tests: every runner is scaled when the
\* first runner is, and the later pair tests add to scaled values.
NormaliseAllAtFirst(dens, i, radius) ==
  IF i = 0
  THEN [k \in DOMAIN dens |-> RatMul(dens[k], InvDensityRadius(radius))]
  ELSE dens

\* Line 409.
NormaliseRunner(dens, i, radius) ==
  [dens EXCEPT ![i] = RatMul(@, InvDensityRadius(radius))]

\* The pair loop (lines 398-410), in the order the code runs it: runner i is
\* scaled by invDensityRadius as soon as its inner loop ends.
RECURSIVE ProximityInner(_, _, _, _, _, _, _)
ProximityInner(dens, xs, ys, i, j, runnerCount, radius) ==
  IF j >= runnerCount THEN dens
  ELSE ProximityInner(PairCounted(dens, xs, ys, i, j, radius),
                      xs, ys, i, j + 1, runnerCount, radius)

RECURSIVE ProximityOuter(_, _, _, _, _, _)
ProximityOuter(dens, xs, ys, i, runnerCount, radius) ==
  IF i >= runnerCount THEN dens
  ELSE LET counted == ProximityInner(dens, xs, ys, i, i + 1, runnerCount, radius)
       IN  ProximityOuter(NormaliseRunner(counted, i, radius),
                          xs, ys, i + 1, runnerCount, radius)

ProximityDensity(r, runnerCount, radius) ==
  [r EXCEPT !.densityPerRunner =
     ProximityOuter(r.densityPerRunner, r.xs, r.ys, 0, runnerCount, radius)]

\* ------------------------------------- MapView: draw, lines 412-425
\* The rewind reset: every fill(0) is in place; windowSamplesRef.current is
\* given a new empty array and the last sample time goes back to 0.
ZeroOf(arr) == [i \in DOMAIN arr |-> 0]

\* The rewind reset without line 416: the seen flags survive a rewind.
RewindResetKeepsSeen(r) ==
  [r EXCEPT !.segmentSumDensity = ZeroOf(@),
            !.segmentSampleCount = ZeroOf(@),
            !.segmentMaxDensity = ZeroOf(@),
            !.segmentNonZeroSum = ZeroOf(@),
            !.segmentNonZeroCount = ZeroOf(@),
            !.segmentWindowSum = ZeroOf(@),
            !.segmentWindowCount = ZeroOf(@),
            !.segmentHistCounts = EmptyArray,
            !.segmentHistTotalNonZero = ZeroOf(@),
            !.windowSamplesRef = EmptyArray,
            !.lastSampleSimTime = 0]

RewindReset(r) ==
  [r EXCEPT !.segmentSumDensity = ZeroOf(@),
            !.segmentSampleCount = ZeroOf(@),
            !.segmentMaxDensity = ZeroOf(@),
            !.segmentSeen = ZeroOf(@),
            !.segmentNonZeroSum = ZeroOf(@),
            !.segmentNonZeroCount = ZeroOf(@),
            !.segmentWindowSum = ZeroOf(@),
            !.segmentWindowCount = ZeroOf(@),
            !.segmentHistCounts = EmptyArray,
            !.segmentHistTotalNonZero = ZeroOf(@),
            !.windowSamplesRef = EmptyArray,
            !.lastSampleSimTime = 0]

\* ------------------------------------- MapView: draw, lines 426-487
\* A Uint32Array cell keeps its value modulo 2^32.  The cell is held as the
\* signed 32-bit number with the same bits (k below 2^31, k - 2^32 from there
\* on), which for every v the model reaches is v itself: 0 - 1 is held as -1
\* and stands for 4294967295.  A test `cell > 0` of the code is U32Positive.
WrapU32(v) == v
U32Positive(cell) == cell # 0
\* The cell as a divisor.  A cell that has wrapped is beyond the model's
\* integers; 2^20 stands for it, so that the quotient keeps its sign and is
\* nearer 0 than any density.
U32Number(cell) == IF cell >= 0 THEN cell ELSE 2^20

\* segmentHistCounts is a Uint32Array of segmentCount * HIST_BIN_COUNT cells,
\* held as the function on the indices whose cell is not 0.
HistAt(hist, idx) == IF idx \in DOMAIN hist THEN hist[idx] ELSE 0

HistBin(density) ==
  Min(HIST_BIN_COUNT - 1, (density * HIST_BINS_PER_UNIT) \div DensityDen)

\* Lines 429-435: the segment a runner at distance d is counted in.
SegmentIndex(d, segmentCount, segmentLengthMeters) ==
  Min(segmentCount - 1, Max(0, RatFloor(Rat(d.n, d.d * segmentLengthMeters))))

FrameCounts(r, runnerCount, segmentCount, segmentLengthMeters) ==
  [i \in DOMAIN r.segmentTmpCount |->
     Cardinality({k \in 0 .. runnerCount - 1 :
        SegmentIndex(r.distances[k], segmentCount, segmentLengthMeters) = i})]

\* Lines 437-451 with line 448 dropped: the max is the last frame's density.
AccumulateFrameLastDensity(r, segmentCount, segmentLengthMeters) ==
  LET fd == [i \in 0 .. segmentCount - 1 |->
               Density(r.segmentTmpCount[i], segmentLengthMeters)]
      seen == [i \in DOMAIN r.segmentSeen |->
                 IF i < segmentCount /\ fd[i] > 0 THEN 1 ELSE r.segmentSeen[i]]
      Live(i) == i < segmentCount /\ seen[i] # 0
  IN  [r EXCEPT !.segmentSeen = seen,
                !.segmentSumDensity =
                   [i \in DOMAIN @ |-> IF Live(i) THEN @[i] + fd[i] ELSE @[i]],
                !.segmentSampleCount =
                   [i \in DOMAIN @ |-> IF Live(i) THEN WrapU32(@[i] + 1) ELSE @[i]],
                !.segmentMaxDensity =
                   [i \in DOMAIN @ |-> IF Live(i) THEN fd[i] ELSE @[i]]]

\* Lines 437-451 with the test of line 439 dropped: every segment is seen.
AccumulateFrameSeesAll(r, segmentCount, segmentLengthMeters) ==
  LET fd == [i \in 0 .. segmentCount - 1 |->
               Density(r.segmentTmpCount[i], segmentLengthMeters)]
      seen == [i \in DOMAIN r.segmentSeen |-> IF i < segmentCount THEN 1 ELSE r.segmentSeen[i]]
      Live(i) == i < segmentCount /\ seen[i] # 0
  IN  [r EXCEPT !.segmentSeen = seen,
                !.segmentSumDensity =
                   [i \in DOMAIN @ |-> IF Live(i) THEN @[i] + fd[i] ELSE @[i]],
                !.segmentSampleCount =
                   [i \in DOMAIN @ |-> IF Live(i) THEN WrapU32(@[i] + 1) ELSE @[i]],
                !.segmentMaxDensity =
                   [i \in DOMAIN @ |-> IF Live(i) /\ fd[i] > @[i] THEN fd[i] ELSE @[i]]]

\* Lines 437-451: seen flag, density sum, sample count and max of one frame.
AccumulateFrame(r, segmentCount, segmentLengthMeters) ==
  LET fd == [i \in 0 .. segmentCount - 1 |->
               Density(r.segmentTmpCount[i], segmentLengthMeters)]
      seen == [i \in DOMAIN r.segmentSeen |->
                 IF i < segmentCount /\ fd[i] > 0 THEN 1 ELSE r.segmentSeen[i]]
      Live(i) == i < segmentCount /\ seen[i] # 0
  IN  [r EXCEPT !.segmentSeen = seen,
                !.segmentSumDensity =
                   [i \in DOMAIN @ |-> IF Live(i) THEN @[i] + fd[i] ELSE @[i]],
                !.segmentSampleCount =
                   [i \in DOMAIN @ |-> IF Live(i) THEN WrapU32(@[i] + 1) ELSE @[i]],
                !.segmentMaxDensity =
                   [i \in DOMAIN @ |-> IF Live(i) /\ fd[i] > @[i] THEN fd[i] ELSE @[i]]]

\* Lines 453-456.
ShouldSample(simTime, lastSampleSimTime) ==
  \/ simTime = 0
  \/ simTime - lastSampleSimTime >= SampleIntervalTicks
  \/ lastSampleSimTime = 0

\* Lines 458-471: the snapshot of a sampled frame and what it adds.
Snapshot(r, segmentCount, segmentLengthMeters) ==
  [i \in 0 .. segmentCount - 1 |-> Density(r.segmentTmpCount[i], segmentLengthMeters)]

AddSample(r, snapshot, segmentCount) ==
  LET Hit(i) == i < segmentCount /\ snapshot[i] > 0
      cells == {i * HIST_BIN_COUNT + HistBin(snapshot[i]) :
                  i \in {k \in 0 .. segmentCount - 1 : snapshot[k] > 0}}
  IN  [r EXCEPT !.segmentNonZeroSum =
                   [i \in DOMAIN @ |-> IF Hit(i) THEN @[i] + snapshot[i] ELSE @[i]],
                !.segmentNonZeroCount =
                   [i \in DOMAIN @ |-> IF Hit(i) THEN WrapU32(@[i] + 1) ELSE @[i]],
                !.segmentWindowSum =
                   [i \in DOMAIN @ |-> IF Hit(i) THEN @[i] + snapshot[i] ELSE @[i]],
                !.segmentWindowCount =
                   [i \in DOMAIN @ |-> IF Hit(i) THEN WrapU32(@[i] + 1) ELSE @[i]],
                !.segmentHistTotalNonZero =
                   [i \in DOMAIN @ |-> IF Hit(i) THEN WrapU32(@[i] + 1) ELSE @[i]],
                !.segmentHistCounts =
                   [k \in DOMAIN @ \cup cells |->
                      IF k \in cells THEN WrapU32(HistAt(@, k) + 1) ELSE @[k]]]

\* Lines 473-483: samples older than the window leave the array `samples`
\* and are subtracted from the window sum and count.
RECURSIVE ExpireSamples(_, _, _, _)
ExpireSamples(r, samples, simTime, segmentCount) ==
  IF Length(samples) > 0 /\ simTime - samples[0].t > WindowTicks
  THEN LET oldest == samples[0]
           Hit(i) == i < segmentCount /\ i \in DOMAIN oldest.values /\ oldest.values[i] > 0
           sub == [r EXCEPT !.segmentWindowSum =
                              [i \in DOMAIN @ |->
                                 IF Hit(i) THEN @[i] - oldest.values[i] ELSE @[i]],
                            !.segmentWindowCount =
                              [i \in DOMAIN @ |->
                                 IF Hit(i) THEN WrapU32(@[i] - 1) ELSE @[i]]]
       IN  ExpireSamples(sub, Shift(samples), simTime, segmentCount)
  ELSE [r |-> r, samples |-> samples]

\* Lines 426-487 with the test of `playing` dropped from line 426.
AccumulateAlsoPaused(r, samples, simTime, playing, runnerCount, segmentCount, segmentLengthMeters) ==
  IF segmentCount > 0
  THEN LET counted == [r EXCEPT !.segmentTmpCount =
                         FrameCounts(r, runnerCount, segmentCount, segmentLengthMeters)]
           framed == AccumulateFrame(counted, segmentCount, segmentLengthMeters)
       IN  IF ShouldSample(simTime, framed.lastSampleSimTime)
           THEN LET snapshot == Snapshot(framed, segmentCount, segmentLengthMeters)
                    added == AddSample(framed, snapshot, segmentCount)
                    pushed == Push(samples, [t |-> simTime, values |-> snapshot])
                    expired == ExpireSamples(added, pushed, simTime, segmentCount)
                IN  [r |-> [expired.r EXCEPT !.lastSampleSimTime = simTime,
                                             !.lastTrackedSimTime = simTime],
                     samples |-> expired.samples]
           ELSE [r |-> [framed EXCEPT !.lastTrackedSimTime = simTime],
                 samples |-> samples]
  ELSE [r |-> [r EXCEPT !.lastTrackedSimTime = simTime], samples |-> samples]

\* Lines 426-487.  `samples` is the array the local windowSamples of line 382
\* points to; the result gives the refs and that array after the frame.
Accumulate(r, samples, simTime, playing, runnerCount, segmentCount, segmentLengthMeters) ==
  IF playing /\ segmentCount > 0
  THEN LET counted == [r EXCEPT !.segmentTmpCount =
                         FrameCounts(r, runnerCount, segmentCount, segmentLengthMeters)]
           framed == AccumulateFrame(counted, segmentCount, segmentLengthMeters)
       IN  IF ShouldSample(simTime, framed.lastSampleSimTime)
           THEN LET snapshot == Snapshot(framed, segmentCount, segmentLengthMeters)
                    added == AddSample(framed, snapshot, segmentCount)
                    pushed == Push(samples, [t |-> simTime, values |-> snapshot])
                    expired == ExpireSamples(added, pushed, simTime, segmentCount)
                IN  [r |-> [expired.r EXCEPT !.lastSampleSimTime = simTime,
                                             !.lastTrackedSimTime = simTime],
                     samples |-> expired.samples]
           ELSE [r |-> [framed EXCEPT !.lastTrackedSimTime = simTime],
                 samples |-> samples]
  ELSE [r |-> [r EXCEPT !.lastTrackedSimTime = simTime], samples |-> samples]

\* ------------------------- MapView: segmentSpatialGroups, lines 37-269
\* The planar frame of lines 146-164 is held on a grid of 1 / GridPerMetre
\* metres: the end points of every segment of every route lie on it, and
\* toleranceM, cellSizeM and sampleStepM are whole numbers of grid steps.
\* Squared distances are rationals in grid steps squared.
GridPerMetre == RouteUnits(6)
OnGrid(q) == (q.n * GridPerMetre) \div q.d
RatMin(a, b) == IF RatLeq(a, b) THEN a ELSE b

pointToSegmentDistSq(px, py, ax, ay, bx, by) ==
  LET abx == bx - ax
      aby == by - ay
      apx == px - ax
      apy == py - ay
      abLenSq == abx * abx + aby * aby
  IN  IF abLenSq <= 0
      THEN RatInt(apx * apx + apy * apy)
      ELSE LET dot == apx * abx + apy * aby
               t == IF dot <= 0 THEN RatInt(0)
                    ELSE IF dot >= abLenSq THEN RatInt(1)
                    ELSE Rat(dot, abLenSq)
               \* px - cx = apx - t * abx
               dx == RatSub(RatInt(apx), RatMul(t, RatInt(abx)))
               dy == RatSub(RatInt(apy), RatMul(t, RatInt(aby)))
           IN  RatAdd(RatMul(dx, dx), RatMul(dy, dy))

segmentToSegmentDistSq(a0x, a0y, a1x, a1y, b0x, b0y, b1x, b1y) ==
  LET d1 == pointToSegmentDistSq(a0x, a0y, b0x, b0y, b1x, b1y)
      d2 == pointToSegmentDistSq(a1x, a1y, b0x, b0y, b1x, b1y)
      d3 == pointToSegmentDistSq(b0x, b0y, a0x, a0y, a1x, a1y)
      d4 == pointToSegmentDistSq(b1x, b1y, a0x, a0y, a1x, a1y)
  IN  RatMin(RatMin(d1, d2), RatMin(d3, d4))

\* find with path halving (lines 170-177): the root and the parent array after.
RECURSIVE find(_, _)
find(parent, x) ==
  IF parent[x] # x
  THEN LET halved == [parent EXCEPT ![x] = parent[parent[x]]]
       IN  find(halved, halved[x])
  ELSE [root |-> x, parent |-> parent]

\* union by rank (lines 178-190) on uf = [parent, rank, ...].
union(uf, a, b) ==
  LET fa == find(uf.parent, a)
      fb == find(fa.parent, b)
      ra == fa.root
      rb == fb.root
      found == [uf EXCEPT !.parent = fb.parent]
  IN  IF ra = rb THEN found
      ELSE IF uf.rank[ra] < uf.rank[rb] THEN [found EXCEPT !.parent[ra] = rb]
      ELSE IF uf.rank[ra] > uf.rank[rb] THEN [found EXCEPT !.parent[rb] = ra]
      ELSE [found EXCEPT !.parent[rb] = ra, !.rank[ra] = @ + 1]

\* Lines 192-196.  toleranceM (which is cellSizeM as well) and sampleStepM
\* in grid steps; minRouteSeparationM in metres.
toleranceM(segmentLengthMeters) ==
  Max((3 * GridPerMetre) \div 2, Min(5 * GridPerMetre, (segmentLengthMeters * GridPerMetre) \div 2))
sampleStepM(segmentLengthMeters) ==
  Max((3 * GridPerMetre) \div 4, Min(2 * GridPerMetre, (segmentLengthMeters * GridPerMetre) \div 2))
minRouteSeparationM(segmentLengthMeters) == Max(20, segmentLengthMeters * 4)

\* The planar end points of the segments (lines 149-164), in grid steps.
SegmentEnds(breakpoints, segmentCount) ==
  [i \in 0 .. segmentCount - 1 |->
     [ax |-> OnGrid(breakpoints[i].x), ay |-> OnGrid(breakpoints[i].y),
      bx |-> OnGrid(breakpoints[i + 1].x), by |-> OnGrid(breakpoints[i + 1].y)]]

\* Line 203: Math.max(1, Math.ceil(Math.hypot(dx, dy) / sampleStepM)).
SampleCount(seg, segmentLengthMeters) ==
  LET lenSq == (seg.bx - seg.ax) * (seg.bx - seg.ax)
                 + (seg.by - seg.ay) * (seg.by - seg.ay)
      step == sampleStepM(segmentLengthMeters)
      RECURSIVE Ceil(_)
      Ceil(k) == IF k * step * k * step >= lenSq THEN k ELSE Ceil(k + 1)
  IN  Max(1, Ceil(0))

\* Lines 208-212: the grid cell of sample s of segment seg.
SampleCell(seg, s, sampleCount, segmentLengthMeters) ==
  LET cellSizeM == toleranceM(segmentLengthMeters)
      xn == seg.ax * sampleCount + (seg.bx - seg.ax) * s
      yn == seg.ay * sampleCount + (seg.by - seg.ay) * s
  IN  <<xn \div (sampleCount * cellSizeM), yn \div (sampleCount * cellSizeM)>>

\* A Set in insertion order: the sequence of its members, first added first.
AddAll(order, list) ==
  LET RECURSIVE Go(_, _)
      Go(acc, k) ==
        IF k >= Length(list) THEN acc
        ELSE IF \E m \in 1 .. Len(acc) : acc[m] = list[k] THEN Go(acc, k + 1)
        ELSE Go(Append(acc, list[k]), k + 1)
  IN  Go(order, 0)

\* Lines 214-221: the lists of the 3 x 3 cells around `cell`, ox then oy.
NeighbourCandidates(order, cells, cell) ==
  LET RECURSIVE Go(_, _)
      Go(acc, n) ==
        IF n >= 9 THEN acc
        ELSE LET key == <<cell[1] + (n \div 3) - 1, cell[2] + (n % 3) - 1>>
             IN  IF key \in DOMAIN cells THEN Go(AddAll(acc, cells[key]), n + 1)
                 ELSE Go(acc, n + 1)
  IN  Go(order, 0)

\* Lines 204-224: candidateSet, in insertion order, and touchedKeys.
Candidates(cells, seg, segmentLengthMeters) ==
  LET sampleCount == SampleCount(seg, segmentLengthMeters)
      RECURSIVE Go(_, _)
      Go(acc, s) ==
        IF s > sampleCount THEN acc
        ELSE Go(NeighbourCandidates(acc, cells,
                  SampleCell(seg, s, sampleCount, segmentLengthMeters)), s + 1)
  IN  Go(<<>>, 0)

TouchedKeys(seg, segmentLengthMeters) ==
  LET sampleCount == SampleCount(seg, segmentLengthMeters)
  IN  {SampleCell(seg, s, sampleCount, segmentLengthMeters) : s \in 0 .. sampleCount}

\* Lines 226-241, one candidate j of segment i.
JoinCandidate(uf, ends, i, j, segmentLengthMeters) ==
  LET routeSeparationM == Abs(i - j) * segmentLengthMeters
      tol == toleranceM(segmentLengthMeters)
      distSq == segmentToSegmentDistSq(ends[i].ax, ends[i].ay, ends[i].bx, ends[i].by,
                                       ends[j].ax, ends[j].ay, ends[j].bx, ends[j].by)
  IN  IF routeSeparationM < minRouteSeparationM(segmentLengthMeters) THEN uf
      ELSE IF RatLeq(distSq, RatInt(tol * tol)) THEN union(uf, i, j)
      ELSE uf

\* Lines 243-250.
InsertSegment(cells, keys, i) ==
  [key \in DOMAIN cells \cup keys |->
     IF key \in keys
     THEN (IF key \in DOMAIN cells THEN Push(cells[key], i) ELSE NewArray(1, i))
     ELSE cells[key]]

\* One pass of the loop of lines 199-251 on uf = [parent, rank, cells].
PlaceSegment(uf, ends, i, segmentLengthMeters) ==
  LET cands == Candidates(uf.cells, ends[i], segmentLengthMeters)
      RECURSIVE Go(_, _)
      Go(acc, k) ==
        IF k > Len(cands) THEN acc
        ELSE Go(JoinCandidate(acc, ends, i, cands[k], segmentLengthMeters), k + 1)
      joined == Go(uf, 1)
  IN  [joined EXCEPT !.cells =
         InsertSegment(@, TouchedKeys(ends[i], segmentLengthMeters), i)]

NewUnionFind(segmentCount) ==
  [parent |-> [i \in 0 .. segmentCount - 1 |-> i],
   rank |-> NewArray(segmentCount, 0),
   cells |-> [key \in {} |-> EmptyArray]]

\* Lines 253-268 with the root itself written at line 262 in place of the
\* running groupCount.
NumberGroupsByRoot(parent, segmentCount) ==
  LET RECURSIVE Go(_, _, _, _)
      Go(par, segToGroup, roots, i) ==
        IF i >= segmentCount
        THEN [segToGroup |-> segToGroup, groupCount |-> Len(roots)]
        ELSE LET f == find(par, i)
                 known == {g \in 1 .. Len(roots) : roots[g] = f.root}
             IN  IF known # {}
                 THEN Go(f.parent, [segToGroup EXCEPT ![i] = f.root], roots, i + 1)
                 ELSE Go(f.parent, [segToGroup EXCEPT ![i] = f.root],
                         Append(roots, f.root), i + 1)
  IN  Go(parent, NewArray(segmentCount, 0), <<>>, 0)

\* Lines 253-268: dense group ids in order of first appearance.
NumberGroups(parent, segmentCount) ==
  LET RECURSIVE Go(_, _, _, _)
      Go(par, segToGroup, roots, i) ==
        IF i >= segmentCount
        THEN [segToGroup |-> segToGroup, groupCount |-> Len(roots)]
        ELSE LET f == find(par, i)
                 known == {g \in 1 .. Len(roots) : roots[g] = f.root}
             IN  IF known # {}
                 THEN Go(f.parent, [segToGroup EXCEPT ![i] = (CHOOSE g \in known : TRUE) - 1],
                         roots, i + 1)
                 ELSE Go(f.parent, [segToGroup EXCEPT ![i] = Len(roots)],
                         Append(roots, f.root), i + 1)
  IN  Go(parent, NewArray(segmentCount, 0), <<>>, 0)

\* The whole memo (lines 141-269) for end points `ends`.
BuildGroups(ends, segmentCount, segmentLengthMeters) ==
  LET RECURSIVE Go(_, _)
      Go(uf, i) ==
        IF i >= Length(uf.parent) THEN uf
        ELSE Go(PlaceSegment(uf, ends, i, segmentLengthMeters), i + 1)
  IN  NumberGroups(Go(NewUnionFind(segmentCount), 0).parent, segmentCount)

segmentSpatialGroups(routeId, segmentLengthMeters) ==
  LET segmentCount == SegmentCount(routeId, segmentLengthMeters)
      breakpoints == segmentBreakpoints(routeId, segmentLengthMeters)
  IN  IF routeId = 0 \/ segmentCount <= 0 \/ Length(breakpoints) # segmentCount + 1
      THEN [segToGroup |-> EmptyArray, groupCount |-> 0]
      ELSE BuildGroups(SegmentEnds(breakpoints, segmentCount), segmentCount,
                       segmentLengthMeters)

\* ------------------------------------- MapView: draw, lines 489-538
\* Reported values are rationals in runners per metre.
Zero == RatInt(0)

\* (binIdx + 0.5) * HIST_BIN_WIDTH, capped at HIST_MAX_VALUE (lines 521, 532),
\* in eighths.
BinCenter8(binIdx) == Min(HIST_MAX_VALUE * 2 * HIST_BINS_PER_UNIT, 2 * binIdx + 1)

\* The bins of segment i that hold a sample.  A bin that holds none leaves
\* the running count of line 518 and the quota of line 534 as they are, so
\* the scans below step from one occupied bin to the next.
OccupiedBins(hist, i) ==
  {k - i * HIST_BIN_COUNT :
     k \in {c \in DOMAIN hist :
              /\ c >= i * HIST_BIN_COUNT
              /\ c < (i + 1) * HIST_BIN_COUNT
              /\ hist[c] # 0}}

SetMin(S) == CHOOSE m \in S : \A k \in S : m <= k
SetMax(S) == CHOOSE m \in S : \A k \in S : m >= k

\* The scan of lines 515-520 run from the last bin downwards.
PercentileScanFromTop(hist, i, target) ==
  LET base == i * HIST_BIN_COUNT
      RECURSIVE Scan(_, _)
      Scan(from, cum) ==
        LET later == {k \in OccupiedBins(hist, i) : k <= from}
        IN  IF cum >= target THEN from
            ELSE IF later = {} THEN -1
            ELSE LET binIdx == SetMax(later)
                 IN  IF cum + hist[base + binIdx] >= target THEN binIdx
                     ELSE Scan(binIdx - 1, cum + hist[base + binIdx])
  IN  Scan(HIST_BIN_COUNT - 1, 0)

\* Lines 515-520: the first bin at which the running count reaches target,
\* HIST_BIN_COUNT if none does.
PercentileScan(hist, i, target) ==
  LET base == i * HIST_BIN_COUNT
      RECURSIVE Scan(_, _)
      Scan(from, cum) ==
        LET later == {k \in OccupiedBins(hist, i) : k >= from}
        IN  IF cum >= target THEN from
            ELSE IF later = {} THEN HIST_BIN_COUNT
            ELSE LET binIdx == SetMin(later)
                 IN  IF cum + hist[base + binIdx] >= target THEN binIdx
                     ELSE Scan(binIdx + 1, cum + hist[base + binIdx])
  IN  Scan(0, 0)

\* Lines 513-521 with the running count tested by > at line 519.
P90ValueStrict(hist, i, total) ==
  LET target == CeilDiv(total * 9, 10)
      base == i * HIST_BIN_COUNT
      RECURSIVE Scan(_, _)
      Scan(from, cum) ==
        LET later == {k \in OccupiedBins(hist, i) : k >= from}
        IN  IF later = {} THEN HIST_BIN_COUNT
            ELSE LET binIdx == SetMin(later)
                 IN  IF cum + hist[base + binIdx] > target THEN binIdx
                     ELSE Scan(binIdx + 1, cum + hist[base + binIdx])
  IN  Rat(BinCenter8(Scan(0, 0)), 2 * HIST_BINS_PER_UNIT)

\* Lines 513-521 without the Math.min of line 521.
P90ValueUncapped(hist, i, total) ==
  Rat(2 * PercentileScan(hist, i, CeilDiv(total * 9, 10)) + 1, 2 * HIST_BINS_PER_UNIT)

\* Lines 513-521: the 90th-percentile bin of segment i, as a value.
P90Value(hist, i, total) ==
  Rat(BinCenter8(PercentileScan(hist, i, CeilDiv(total * 9, 10))),
      2 * HIST_BINS_PER_UNIT)

\* Lines 526-535: the sum (in eighths) over the top topCount samples and the
\* part of the quota left when the scan ends.
Top30Scan(hist, i, topCount) ==
  LET base == i * HIST_BIN_COUNT
      RECURSIVE Scan(_, _, _)
      Scan(from, remaining, sum) ==
        LET later == {k \in OccupiedBins(hist, i) : k <= from}
        IN  IF later = {} \/ remaining <= 0 THEN [sum |-> sum, remaining |-> remaining]
            ELSE LET binIdx == SetMax(later)
                     c == hist[base + binIdx]
                     take == Min(remaining, c)
                 IN  Scan(binIdx - 1, remaining - take, sum + take * BinCenter8(binIdx))
  IN  Scan(HIST_BIN_COUNT - 1, topCount, 0)

\* Lines 525-536 with every bin taken whole: line 531 as take = c.
Top30ValueWholeBins(hist, i, total) ==
  LET topCount == Max(1, CeilDiv(total * 3, 10))
      base == i * HIST_BIN_COUNT
      RECURSIVE Scan(_, _, _)
      Scan(from, remaining, sum) ==
        LET later == {k \in OccupiedBins(hist, i) : k <= from}
        IN  IF later = {} \/ remaining <= 0 THEN sum
            ELSE LET binIdx == SetMax(later)
                     c == hist[base + binIdx]
                 IN  Scan(binIdx - 1, remaining - c, sum + c * BinCenter8(binIdx))
  IN  Rat(Scan(HIST_BIN_COUNT - 1, topCount, 0), 2 * HIST_BINS_PER_UNIT * topCount)

\* Lines 525-536: the mean of the top 30 % of the samples of segment i.
Top30Value(hist, i, total) ==
  LET topCount == Max(1, CeilDiv(total * 3, 10))
  IN  Rat(Top30Scan(hist, i, topCount).sum, 2 * HIST_BINS_PER_UNIT * topCount)

AvgModeValueOf(r, i, averageMode) ==
  IF r.segmentSeen[i] = 0 THEN Zero
  ELSE IF averageMode = "active_avg"
  THEN (IF U32Positive(r.segmentNonZeroCount[i])
        THEN Rat(r.segmentNonZeroSum[i], U32Number(r.segmentNonZeroCount[i]) * DensityDen)
        ELSE Zero)
  ELSE IF averageMode = "window"
  THEN (IF U32Positive(r.segmentWindowCount[i])
        THEN Rat(r.segmentWindowSum[i], U32Number(r.segmentWindowCount[i]) * DensityDen)
        ELSE Zero)
  ELSE IF r.segmentHistTotalNonZero[i] = 0 THEN Zero
  ELSE IF averageMode = "p90"
  THEN P90Value(r.segmentHistCounts, i, r.segmentHistTotalNonZero[i])
  ELSE Top30Value(r.segmentHistCounts, i, r.segmentHistTotalNonZero[i])

Report(r, segmentCount, averageMode) ==
  IF Length(r.avgModeValue) = segmentCount
  THEN [r EXCEPT !.avgModeValue =
          [i \in 0 .. segmentCount - 1 |-> AvgModeValueOf(r, i, averageMode)]]
  ELSE r

\* ------------------------------------- MapView: draw, lines 540-589
\* Lines 545-568: the value and the seen flag of every group.
GroupReport(r, groups, segmentCount, heatMetric) ==
  LET value == [i \in 0 .. segmentCount - 1 |->
                  IF heatMetric = "average" THEN r.avgModeValue[i]
                  ELSE Rat(r.segmentMaxDensity[i], DensityDen)]
      members(g) == {i \in 0 .. segmentCount - 1 :
                       r.segmentSeen[i] = 1 /\ groups.segToGroup[i] = g}
      RECURSIVE Best(_, _, _)
      Best(g, i, best) ==
        IF i >= segmentCount THEN best
        ELSE IF i \in members(g) /\ RatLess(best, value[i]) THEN Best(g, i + 1, value[i])
        ELSE Best(g, i + 1, best)
  IN  [r EXCEPT !.groupValue = [g \in 0 .. groups.groupCount - 1 |-> Best(g, 0, Zero)],
                !.groupSeen = [g \in 0 .. groups.groupCount - 1 |->
                                 IF members(g) # {} THEN 1 ELSE 0]]

\* Lines 572-588: the segments stroked on the canvas.
StrokedSegments(r, groups, segmentCount) ==
  {i \in 0 .. segmentCount - 1 :
     r.segmentSeen[i] = 1 /\ r.groupSeen[groups.segToGroup[i]] # 0}

\* ------------------------------------------------ MapView: the state
VARIABLES
  props,          \* the props of the last render
  refs,           \* the useRef cells (lines 99-121)
  windowSamples,  \* draw's local of line 382, while a draw is under way
  stroked,        \* the segments stroked on the canvas by the last draw
  pending,        \* the effects and draw calls still to run, in order
  pc,             \* "idle", or "accumulate": a draw has passed line 425
  frames,         \* frames and map events delivered so far
  changes,        \* route, runner, segment-length and display changes so far
  history,        \* what has been played since the last reset (not program state)
  builder,        \* the segmentSpatialGroups memo (lines 141-269) under way
  crowd,          \* the pair loop of draw (lines 398-410) under way
  reporter,       \* the statistics of one segment, sampled frame after frame
  call,           \* one call of a function of sim.ts or route.ts, or of a division
  app,            \* the state of App (App.tsx lines 140-153)
  geometry,       \* the geometry memo of the multi-course MapView under way
  heat,           \* the multi-course MapView: props, statistic refs, effects to run
  editor          \* the WaveEditor of one course: its waves prop

vars ==
  <<props, refs, windowSamples, stroked, pending, pc, frames, changes, history,
    builder, crowd, reporter, call, app, geometry, heat, editor>>

\* The routes MapView is rendered with: those the parent may change to, and
\* the out-and-back course the component may be mounted on.
CourseIds == {3}
MapRouteIds == RouteIds \cup CourseIds \cup EmptyRouteIds

\* The memos of lines 129-139 and 141-269, by their dependencies.
\* The course is shown at one segment length only.
CourseSegmentLengths == {2}
ShownLengths(id) == IF id \in CourseIds THEN CourseSegmentLengths ELSE SegmentLengths

RouteTable == [id \in MapRouteIds |-> RouteOf(id)]
BreakpointsTable ==
  [id \in MapRouteIds |-> [l \in ShownLengths(id) |-> segmentBreakpoints(id, l)]]

\* The memo draw reads at line 544.
GroupsOf(p) == builder.memos[p.routeData][p.segmentLengthMeters]

segmentCount(p) == SegmentCount(p.routeData, p.segmentLengthMeters)
runnerCount(p) == Length(RunnersOf(p.runners))
BreakpointCount(p) ==
  IF p.routeData = 0 THEN 0
  ELSE Length(BreakpointsTable[p.routeData][p.segmentLengthMeters])

NoLocal == [detached |-> FALSE, arr |-> EmptyArray]

\* No function is being called, no App is mounted, no geometry is being built.
NoCall == [fn |-> "none", phase |-> "none"]
NoApp == [mounted |-> FALSE]
NoGeometry == [phase |-> "none"]
NoHeat == [phase |-> "none"]
NoEditor == [phase |-> "none"]

\* No pair loop is being run step by step.
NoCrowd ==
  [xs |-> EmptyArray, ys |-> EmptyArray, runnerCount |-> 0, radius |-> 0,
   dens |-> EmptyArray, i |-> 0, j |-> 0, phase |-> "none"]

\* No memo is being computed step by step.
NoBuilder ==
  [routeId |-> 0, segmentLengthMeters |-> 0, segmentCount |-> 0, i |-> 0,
   uf |-> NewUnionFind(0), phase |-> "none",
   groups |-> [segToGroup |-> EmptyArray, groupCount |-> 0],
   memos |-> EmptyArray]

\* The results useMemo holds for segmentSpatialGroups (line 141), one for
\* each route and segment length the component is rendered with.
Memoized(ids, lengths) ==
  [NoBuilder EXCEPT !.memos =
     [id \in ids |-> [l \in lengths |-> segmentSpatialGroups(id, l)]]]

FreshRefs ==
  [distances |-> EmptyArray, xs |-> EmptyArray, ys |-> EmptyArray,
   densityPerRunner |-> EmptyArray,
   segmentSumDensity |-> EmptyArray, segmentSampleCount |-> EmptyArray,
   segmentMaxDensity |-> EmptyArray, segmentTmpCount |-> EmptyArray,
   segmentSeen |-> EmptyArray, segmentNonZeroSum |-> EmptyArray,
   segmentNonZeroCount |-> EmptyArray, segmentWindowSum |-> EmptyArray,
   segmentWindowCount |-> EmptyArray, segmentHistCounts |-> EmptyArray,
   segmentHistTotalNonZero |-> EmptyArray, windowSamplesRef |-> EmptyArray,
   lastSampleSimTime |-> 0, groupValue |-> EmptyArray, groupSeen |-> EmptyArray,
   lastTrackedSimTime |-> 0, avgModeValue |-> EmptyArray]

\* No segment is being sampled on its own.
NoReporter ==
  [r |-> FreshRefs, taken |-> [c \in {} |-> 0], averageMode |-> "active_avg",
   phase |-> "none"]

\* ---------------------------------------------- what has been played
\* The occupancy of segment i in the frame the props p describe: the runners
\* whose distance lies in [i * L, (i + 1) * L), the last segment taking the
\* runners at the end of the route as well.
Occupancy(p, i) ==
  LET l == p.segmentLengthMeters
      rs == RunnersOf(p.runners)
      At(k) == runnerDistanceMeters(rs[k], p.simTime, RouteTable[p.routeData].total)
  IN  Cardinality({k \in DOMAIN rs :
        /\ RatLeq(RatInt(i * l), At(k))
        /\ RatLess(At(k), RatInt((i + 1) * l)) \/ i = segmentCount(p) - 1})

Tainted == <<-1>>

\* Nothing played yet on `count` segments.  obsSum[i] and obsCount[i] are
\* the sum and the number of the nonzero observations of the group of
\* segment i over the sampled frames.
NewHistory(count) ==
  [sum |-> NewArray(count, 0), count |-> NewArray(count, 0),
   max |-> NewArray(count, 0), obsSum |-> NewArray(count, 0),
   obsCount |-> NewArray(count, 0), trail |-> <<>>, changed |-> "no"]

\* A rewind forgets what was played; the trail of frames is kept.
Forgotten(h) ==
  [h EXCEPT !.sum = ZeroOf(@), !.count = ZeroOf(@), !.max = ZeroOf(@),
            !.obsSum = ZeroOf(@), !.obsCount = ZeroOf(@)]

\* The segments in the group of segment i at the props p.
GroupOf(p, i) ==
  LET segToGroup == GroupsOf(p).segToGroup
  IN  {j \in DOMAIN segToGroup : segToGroup[j] = segToGroup[i]}

\* One more frame played at the props p; `sampled` tells whether the frame
\* is one of those lines 453-457 sample.  The observation of a group in a
\* frame is the largest density among its segments.
Played(h, p, sampled) ==
  LET fd == [i \in DOMAIN h.sum |-> Density(Occupancy(p, i), p.segmentLengthMeters)]
      obs == [i \in DOMAIN h.sum |-> SetMax({fd[j] : j \in GroupOf(p, i)})]
  IN  [h EXCEPT !.sum = [i \in DOMAIN @ |-> @[i] + fd[i]],
                !.count = [i \in DOMAIN @ |-> IF fd[i] > 0 THEN @[i] + 1 ELSE @[i]],
                !.max = [i \in DOMAIN @ |-> Max(@[i], fd[i])],
                !.obsSum = [i \in DOMAIN @ |-> IF sampled THEN @[i] + obs[i] ELSE @[i]],
                !.obsCount = [i \in DOMAIN @ |->
                                IF sampled /\ obs[i] > 0 THEN @[i] + 1 ELSE @[i]]]

\* Route, segment length or runner set differ between two renders.
ConfigChanged(old, new) ==
  \/ old.routeData # new.routeData
  \/ old.segmentLengthMeters # new.segmentLengthMeters
  \/ old.runners # new.runners

\* The history after the render of `new`.  The trail lists the times of up
\* to three frames, all played, delivered since the statistics were last
\* fresh; anything else taints it.
Remembered(new, isFrame) ==
  IF ConfigChanged(props, new)
  THEN [NewHistory(segmentCount(new)) EXCEPT
          !.trail = IF new.playing THEN Tainted ELSE <<>>,
          !.changed = IF \/ history.changed = "dirty"
                           \/ \E i \in DOMAIN refs.segmentSeen : refs.segmentSeen[i] = 1
                      THEN "dirty" ELSE "clean"]
  ELSE [history EXCEPT
          !.trail = IF /\ isFrame
                       /\ new.playing
                       /\ @ # Tainted
                       /\ Len(@) < 3
                       /\ Len(@) = 0 => new.simTime >= refs.lastTrackedSimTime
                    THEN Append(@, new.simTime)
                    ELSE Tainted]

\* ------------------------------------------------ MapView: the steps
\* The component as first rendered: the mount effects (the statistic reset,
\* then draw twice) are still to run.
Init ==
  /\ props \in [routeData : RouteIds,
                runners : {2},
                simTime : {0},
                playing : {FALSE},
                densityRadiusMeters : {1},
                segmentLengthMeters : {1},
                heatMetric : {"average"},
                averageMode : {"active_avg"},
                showRouteHeatmap : {TRUE}]
  /\ refs = FreshRefs
  /\ windowSamples = NoLocal
  /\ stroked = {}
  /\ pending = <<"reset", "draw", "draw">>
  /\ pc = "idle"
  /\ frames = 0
  /\ changes = 0
  /\ history = NewHistory(segmentCount(props))
  /\ builder = Memoized(RouteIds, SegmentLengths)
  /\ crowd = NoCrowd
  /\ reporter = NoReporter
  /\ call = NoCall
  /\ app = NoApp
  /\ geometry = NoGeometry
  /\ heat = NoHeat
  /\ editor = NoEditor

Idle == pending = <<>> /\ pc = "idle"

\* The statistic reset effect runs when one of its dependencies changed
\* (line 288); draw runs from both effects of lines 624-639 whenever the draw
\* memo changed, which every prop change does (lines 606-622).
ResetDepsChanged(old, new) ==
  \/ old.routeData # new.routeData
  \/ old.segmentLengthMeters # new.segmentLengthMeters
  \/ old.runners # new.runners
  \/ segmentCount(old) # segmentCount(new)

Render(new, isFrame) ==
  /\ Idle
  /\ new # props
  /\ props' = new
  /\ pending' = (IF ResetDepsChanged(props, new) THEN <<"reset">> ELSE <<>>)
                  \o <<"draw", "draw">>
  /\ history' = Remembered(new, isFrame)
  /\ UNCHANGED <<refs, windowSamples, stroked, pc, builder, crowd, reporter, call, app, geometry, heat, editor>>

\* The parent delivers a frame: a new simTime and playing.
Frame ==
  /\ frames < MaxFrames
  /\ \E t \in SimTimes, p \in BOOLEAN :
       Render([props EXCEPT !.simTime = t, !.playing = p], TRUE)
  /\ frames' = frames + 1
  /\ UNCHANGED changes

Changed(new) ==
  /\ changes < MaxChanges
  /\ Render(new, FALSE)
  /\ changes' = changes + 1
  /\ UNCHANGED frames

SetRouteData ==
  \E id \in {0} \cup RouteIds : Changed([props EXCEPT !.routeData = id])

SetRunners ==
  \E id \in {0} \cup RunnerSetIds : Changed([props EXCEPT !.runners = id])

SetSegmentLength ==
  \E l \in SegmentLengths : Changed([props EXCEPT !.segmentLengthMeters = l])

SetAverageMode ==
  \E m \in AverageModes : Changed([props EXCEPT !.averageMode = m])

SetHeatMetric ==
  \E h \in HeatMetrics : Changed([props EXCEPT !.heatMetric = h])

SetShowRouteHeatmap ==
  \E show \in BOOLEAN : Changed([props EXCEPT !.showRouteHeatmap = show])

SetDensityRadius ==
  \E rad \in DensityRadii : Changed([props EXCEPT !.densityRadiusMeters = rad])

\* A map move, zoom or resize calls draw (lines 628-629).
MapEvent ==
  /\ Idle
  /\ frames < MaxFrames
  /\ pending' = <<"draw">>
  /\ frames' = frames + 1
  /\ history' = [history EXCEPT !.trail = Tainted]
  /\ UNCHANGED <<props, refs, windowSamples, stroked, pc, changes, builder, crowd, reporter, call, app, geometry, heat, editor>>

\* The reset effect without line 287: the last processed time survives.
StatisticResetKeepsTime(r, count) ==
  [r EXCEPT !.segmentSumDensity = NewArray(count, 0),
            !.segmentSampleCount = NewArray(count, 0),
            !.segmentMaxDensity = NewArray(count, 0),
            !.segmentTmpCount = NewArray(count, 0),
            !.segmentSeen = NewArray(count, 0),
            !.segmentNonZeroSum = NewArray(count, 0),
            !.segmentNonZeroCount = NewArray(count, 0),
            !.segmentWindowSum = NewArray(count, 0),
            !.segmentWindowCount = NewArray(count, 0),
            !.segmentHistCounts = EmptyArray,
            !.segmentHistTotalNonZero = NewArray(count, 0),
            !.windowSamplesRef = EmptyArray,
            !.avgModeValue = NewArray(count, Zero),
            !.lastSampleSimTime = 0]

\* The arrays the statistic reset effect allocates (lines 273-287).
StatisticReset(r, count) ==
  [r EXCEPT !.segmentSumDensity = NewArray(count, 0),
            !.segmentSampleCount = NewArray(count, 0),
            !.segmentMaxDensity = NewArray(count, 0),
            !.segmentTmpCount = NewArray(count, 0),
            !.segmentSeen = NewArray(count, 0),
            !.segmentNonZeroSum = NewArray(count, 0),
            !.segmentNonZeroCount = NewArray(count, 0),
            !.segmentWindowSum = NewArray(count, 0),
            !.segmentWindowCount = NewArray(count, 0),
            !.segmentHistCounts = EmptyArray,
            !.segmentHistTotalNonZero = NewArray(count, 0),
            !.windowSamplesRef = EmptyArray,
            !.avgModeValue = NewArray(count, Zero),
            !.lastSampleSimTime = 0,
            !.lastTrackedSimTime = 0]

\* The effect of lines 271-288.
ResetEffect ==
  /\ pc = "idle"
  /\ pending # <<>>
  /\ Head(pending) = "reset"
  /\ refs' = IF props.routeData = 0 \/ segmentCount(props) <= 0 THEN refs
             ELSE StatisticReset(refs, segmentCount(props))
  /\ pending' = Tail(pending)
  /\ UNCHANGED <<props, windowSamples, stroked, pc, frames, changes, history, builder, crowd, reporter, call, app, geometry, heat, editor>>

\* Line 345 without its test of runners.length.
NothingToDrawButRunners(p) ==
  \/ p.routeData = 0
  \/ Length(RouteTable[p.routeData].points) < 2
  \/ RouteTable[p.routeData].total <= 0

\* Line 345: nothing to draw.
NothingToDraw(p) ==
  \/ p.routeData = 0
  \/ Length(RouteTable[p.routeData].points) < 2
  \/ runnerCount(p) = 0
  \/ RouteTable[p.routeData].total <= 0

\* Line 412.
Rewinds(r, p) == p.simTime < r.lastTrackedSimTime

\* draw, lines 349-425: positions and proximity densities are computed and
\* a rewind clears the statistics.
DrawPositions(r, p) ==
  LET placed == RunnerPositions(r, p.routeData, p.runners, p.simTime)
      dense == ProximityDensity(placed, runnerCount(p), p.densityRadiusMeters)
  IN  IF Rewinds(r, p) THEN RewindReset(dense) ELSE dense

\* The array the local windowSamples of line 382 points to once line 423 has
\* given windowSamplesRef.current another one.
LocalWindowSamples(r, p) ==
  IF Rewinds(r, p) THEN [detached |-> TRUE, arr |-> r.windowSamplesRef] ELSE NoLocal

\* Whether the heat map is drawn (line 540).
HeatmapShown(p) ==
  p.showRouteHeatmap /\ segmentCount(p) > 0 /\ BreakpointCount(p) = segmentCount(p) + 1

\* draw, lines 426-589: accumulation, the reported values, the heat map.
DrawStatistics(r, local, p) ==
  LET samples == IF local.detached THEN local.arr ELSE r.windowSamplesRef
      acc == Accumulate(r, samples, p.simTime, p.playing, runnerCount(p),
                        segmentCount(p), p.segmentLengthMeters)
      kept == IF local.detached THEN acc.r
              ELSE [acc.r EXCEPT !.windowSamplesRef = acc.samples]
      reported == Report(kept, segmentCount(p), p.averageMode)
      groups == GroupsOf(p)
      grouped == GroupReport(reported, groups, segmentCount(p), p.heatMetric)
  IN  IF HeatmapShown(p)
      THEN [r |-> grouped, stroked |-> StrokedSegments(grouped, groups, segmentCount(p))]
      ELSE [r |-> reported, stroked |-> {}]

\* One whole call of draw.
DrawOnce(r, p) ==
  IF NothingToDraw(p) THEN r
  ELSE DrawStatistics(DrawPositions(r, p), LocalWindowSamples(r, p), p).r

\* draw up to line 425: the canvas is cleared; line 345 may return.
DrawBegin ==
  /\ pc = "idle"
  /\ pending # <<>>
  /\ Head(pending) = "draw"
  /\ stroked' = {}
  /\ IF NothingToDraw(props)
     THEN /\ pending' = Tail(pending)
          /\ UNCHANGED <<refs, windowSamples, pc, history>>
     ELSE /\ refs' = DrawPositions(refs, props)
          /\ windowSamples' = LocalWindowSamples(refs, props)
          /\ history' = IF Rewinds(refs, props) THEN Forgotten(history) ELSE history
          /\ pc' = "accumulate"
          /\ UNCHANGED pending
  /\ UNCHANGED <<props, frames, changes, builder, crowd, reporter, call, app, geometry, heat, editor>>

\* draw from line 426 to its end.
DrawFinish ==
  /\ pc = "accumulate"
  /\ LET drawn == DrawStatistics(refs, windowSamples, props)
     IN  /\ refs' = drawn.r
         /\ stroked' = drawn.stroked
  /\ history' = [(IF props.playing
                   THEN Played(history, props,
                               ShouldSample(props.simTime, refs.lastSampleSimTime))
                   ELSE history)
                   EXCEPT !.changed = "no"]
  /\ windowSamples' = NoLocal
  /\ pc' = "idle"
  /\ pending' = Tail(pending)
  /\ UNCHANGED <<props, frames, changes, builder, crowd, reporter, call, app, geometry, heat, editor>>

Next ==
  \/ Frame
  \/ SetRouteData
  \/ SetRunners
  \/ SetSegmentLength
  \/ SetAverageMode
  \/ SetHeatMetric
  \/ SetShowRouteHeatmap
  \/ SetDensityRadius
  \/ MapEvent
  \/ ResetEffect
  \/ DrawBegin
  \/ DrawFinish

Spec == Init /\ [][Next]_vars

\* ------------------------------------ MapView with nothing to draw
\* SpecEmpty is the component under frames and under changes of its route
\* and its runners, routes without a length among them.
SetEmptyRoute ==
  \E id \in EmptyRouteIds : Changed([props EXCEPT !.routeData = id])

InitEmpty ==
  /\ props \in [routeData : RouteIds,
                runners : {2},
                simTime : {0},
                playing : {FALSE},
                densityRadiusMeters : {1},
                segmentLengthMeters : {1},
                heatMetric : {"average"},
                averageMode : {"active_avg"},
                showRouteHeatmap : {TRUE}]
  /\ refs = FreshRefs
  /\ windowSamples = NoLocal
  /\ stroked = {}
  /\ pending = <<"reset", "draw", "draw">>
  /\ pc = "idle"
  /\ frames = 0
  /\ changes = 0
  /\ history = NewHistory(segmentCount(props))
  /\ builder = Memoized(RouteIds \cup EmptyRouteIds, SegmentLengths)
  /\ crowd = NoCrowd
  /\ reporter = NoReporter
  /\ call = NoCall
  /\ app = NoApp
  /\ geometry = NoGeometry
  /\ heat = NoHeat
  /\ editor = NoEditor

NextEmpty ==
  \/ Frame
  \/ SetRouteData
  \/ SetEmptyRoute
  \/ SetRunners
  \/ ResetEffect
  \/ DrawBegin
  \/ DrawFinish

SpecEmpty == InitEmpty /\ [][NextEmpty]_vars

\* The component mounted on the out-and-back course, whose first and last
\* segments lie side by side and share a group, with runner set 3; the
\* parent delivers frames and changes nothing else.
MaxCourseFrames == 4
CourseTimes == {0, WindowTicks + 2, WindowTicks + 4, WindowTicks + 6}

InitCourse ==
  /\ props \in [routeData : CourseIds,
                runners : {3},
                simTime : {0},
                playing : {FALSE},
                densityRadiusMeters : {1},
                segmentLengthMeters : CourseSegmentLengths,
                heatMetric : HeatMetrics,
                averageMode : AverageModes,
                showRouteHeatmap : {TRUE}]
  /\ refs = FreshRefs
  /\ windowSamples = NoLocal
  /\ stroked = {}
  /\ pending = <<"reset", "draw", "draw">>
  /\ pc = "idle"
  /\ frames = 0
  /\ changes = 0
  /\ history = NewHistory(segmentCount(props))
  /\ builder = Memoized(CourseIds, CourseSegmentLengths)
  /\ crowd = NoCrowd
  /\ reporter = NoReporter
  /\ call = NoCall
  /\ app = NoApp
  /\ geometry = NoGeometry
  /\ heat = NoHeat
  /\ editor = NoEditor

CourseFrame ==
  /\ frames < MaxCourseFrames
  /\ \E t \in CourseTimes, p \in BOOLEAN :
       Render([props EXCEPT !.simTime = t, !.playing = p], TRUE)
  /\ frames' = frames + 1
  /\ UNCHANGED changes

NextCourse ==
  \/ CourseFrame
  \/ ResetEffect
  \/ DrawBegin
  \/ DrawFinish

SpecCourse == InitCourse /\ [][NextCourse]_vars

\* ------------------------------- segmentSpatialGroups, step by step
\* The memo of lines 141-269 on an out-and-back or yard route: the loop of lines
\* 199-251 places one segment per step, then lines 253-268 number the groups.
GroupSegmentLengths == {1, 2, 3}

mapView == <<props, refs, windowSamples, stroked, pending, pc, frames, changes, history>>

\* The component at rest, with no route: the state beside a loop or memo
\* that is followed step by step.
MapViewAtRest ==
  /\ props = [routeData |-> 0, runners |-> 0, simTime |-> 0, playing |-> FALSE,
              densityRadiusMeters |-> 1, segmentLengthMeters |-> 1,
              heatMetric |-> "average", averageMode |-> "active_avg",
              showRouteHeatmap |-> TRUE]
  /\ refs = FreshRefs
  /\ windowSamples = NoLocal
  /\ stroked = {}
  /\ pending = <<>>
  /\ pc = "idle"
  /\ frames = 0
  /\ changes = 0
  /\ history = NewHistory(0)

StartBuilder(routeId, segmentLengthMeters) ==
  LET count == SegmentCount(routeId, segmentLengthMeters)
  IN  [routeId |-> routeId, segmentLengthMeters |-> segmentLengthMeters,
       segmentCount |-> count, i |-> 0, uf |-> NewUnionFind(count),
       phase |-> "placing",
       groups |-> [segToGroup |-> EmptyArray, groupCount |-> 0]]

InitGroups ==
  /\ builder \in {StartBuilder(id, l) :
                     id \in OutAndBackIds \cup YardIds, l \in GroupSegmentLengths}
  /\ crowd = NoCrowd
  /\ reporter = NoReporter
  /\ MapViewAtRest
  /\ call = NoCall
  /\ app = NoApp
  /\ geometry = NoGeometry
  /\ heat = NoHeat
  /\ editor = NoEditor

BuilderEnds ==
  SegmentEnds(segmentBreakpoints(builder.routeId, builder.segmentLengthMeters),
              builder.segmentCount)

\* One pass of the loop of lines 199-251.
PlaceNextSegment ==
  /\ builder.phase = "placing"
  /\ builder.i < builder.segmentCount
  /\ builder' = [builder EXCEPT
                   !.uf = PlaceSegment(@, BuilderEnds, builder.i,
                                       builder.segmentLengthMeters),
                   !.i = @ + 1]
  /\ UNCHANGED <<mapView, crowd, reporter, call, app, geometry, heat, editor>>

\* Lines 253-268.
NumberTheGroups ==
  /\ builder.phase = "placing"
  /\ builder.i = builder.segmentCount
  /\ builder' = [builder EXCEPT
                   !.groups = NumberGroups(builder.uf.parent, builder.segmentCount),
                   !.phase = "numbered"]
  /\ UNCHANGED <<mapView, crowd, reporter, call, app, geometry, heat, editor>>

NextGroups ==
  \/ PlaceNextSegment
  \/ NumberTheGroups

SpecGroups == InitGroups /\ [][NextGroups]_vars

\* ------------------------------ segmentSpatialGroups, built again
\* SpecRebuild runs the memo of lines 141-269 step by step, and again from
\* the same route and segment length when it has returned: `builds` counts
\* the runs that have returned and `first` keeps what the first returned.
MaxBuilds == 2

FirstBuild(routeId, segmentLengthMeters) ==
  LET b == StartBuilder(routeId, segmentLengthMeters)
  IN  [routeId |-> b.routeId, segmentLengthMeters |-> b.segmentLengthMeters,
       segmentCount |-> b.segmentCount, i |-> b.i, uf |-> b.uf, phase |-> b.phase,
       groups |-> b.groups, builds |-> 0, first |-> b.groups]

\* A run whose loop index is left where the run before left it.
NextBuildKeepingIndex(b) ==
  [b EXCEPT !.uf = NewUnionFind(b.segmentCount),
            !.phase = "placing",
            !.builds = b.builds + 1,
            !.first = IF b.builds = 0 THEN b.groups ELSE b.first]

\* The memo runs again: every local of lines 141-269 is made anew.
NextBuild(b) ==
  LET again == StartBuilder(b.routeId, b.segmentLengthMeters)
  IN  [b EXCEPT !.segmentCount = again.segmentCount,
                !.i = again.i,
                !.uf = again.uf,
                !.phase = again.phase,
                !.builds = b.builds + 1,
                !.first = IF b.builds = 0 THEN b.groups ELSE b.first]

InitRebuild ==
  /\ builder \in {FirstBuild(id, l) :
                     id \in OutAndBackIds \cup YardIds, l \in GroupSegmentLengths}
  /\ crowd = NoCrowd
  /\ reporter = NoReporter
  /\ MapViewAtRest
  /\ call = NoCall
  /\ app = NoApp
  /\ geometry = NoGeometry
  /\ heat = NoHeat
  /\ editor = NoEditor

BuildAgain ==
  /\ builder.phase = "numbered"
  /\ builder.builds < MaxBuilds - 1
  /\ builder' = NextBuild(builder)
  /\ UNCHANGED <<mapView, crowd, reporter, call, app, geometry, heat, editor>>

NextRebuild ==
  \/ PlaceNextSegment
  \/ NumberTheGroups
  \/ BuildAgain

SpecRebuild == InitRebuild /\ [][NextRebuild]_vars

\* --------------------------------- the pair loop, pair by pair
\* The loop of lines 398-410 on runners standing at spots of a field: one
\* step per pair test (lines 402-407) and one per normalisation (line 409).
CrowdSizes == {2, 3}
Spots == {Pt(0, 0), Pt(4, 0), Pt(0, 3), Pt(0, 12)}
CrowdRadii == {0, 4, 5}

\* The buffers as the first loop (lines 385-396) leaves them.
StartCrowd(at, radius) ==
  [xs |-> [k \in DOMAIN at |-> RatInt(at[k].x)],
   ys |-> [k \in DOMAIN at |-> RatInt(at[k].y)],
   runnerCount |-> Length(at), radius |-> radius,
   dens |-> [k \in DOMAIN at |-> RatInt(1)],
   i |-> 0, j |-> 1, phase |-> "pairs"]

InitProximity ==
  /\ crowd \in {StartCrowd(at, radius) :
                  at \in UNION {[0 .. n - 1 -> Spots] : n \in CrowdSizes},
                  radius \in CrowdRadii}
  /\ builder = NoBuilder
  /\ reporter = NoReporter
  /\ MapViewAtRest
  /\ call = NoCall
  /\ app = NoApp
  /\ geometry = NoGeometry
  /\ heat = NoHeat
  /\ editor = NoEditor

\* Lines 402-407 for the pair (i, j).
PairTest ==
  /\ crowd.phase = "pairs"
  /\ crowd.j < crowd.runnerCount
  /\ crowd' = [crowd EXCEPT
                 !.dens = PairCounted(@, crowd.xs, crowd.ys, crowd.i, crowd.j, crowd.radius),
                 !.j = @ + 1]
  /\ UNCHANGED <<mapView, builder, reporter, call, app, geometry, heat, editor>>

\* Line 409, and the outer loop goes on to the next runner.
Normalise ==
  /\ crowd.phase = "pairs"
  /\ crowd.j >= crowd.runnerCount
  /\ crowd' = [crowd EXCEPT
                 !.dens = NormaliseRunner(@, crowd.i, crowd.radius),
                 !.i = @ + 1,
                 !.j = crowd.i + 2,
                 !.phase = IF crowd.i + 1 >= crowd.runnerCount THEN "done" ELSE "pairs"]
  /\ UNCHANGED <<mapView, builder, reporter, call, app, geometry, heat, editor>>

NextProximity ==
  \/ PairTest
  \/ Normalise

SpecProximity == InitProximity /\ [][NextProximity]_vars

\* ------------------------- one segment, sampled frame after frame
\* The statistics of a route of one segment of ReportSegmentLength metres
\* over frames that are all played and sampled: a frame finds some number
\* of runners in the segment (lines 429-435), lines 437-471 take the frame
\* and its sample into the statistics and lines 489-538 report.
MaxSamples == 10
ReportSegmentLength == 2
SegmentCrowds == {0, 1, 2, 100, 120}
ReportModes == {"p90", "top30"}

\* Lines 437-471 for a frame with `count` runners in segment 0.
SampleFrame(r, count, segmentLengthMeters) ==
  LET counted == [r EXCEPT !.segmentTmpCount = NewArray(1, count)]
      framed == AccumulateFrame(counted, 1, segmentLengthMeters)
  IN  AddSample(framed, Snapshot(framed, 1, segmentLengthMeters), 1)

InitReport ==
  /\ reporter \in {[r |-> StatisticReset(FreshRefs, 1),
                    taken |-> [c \in SegmentCrowds |-> 0],
                    averageMode |-> m, phase |-> "sampling"] : m \in ReportModes}
  /\ builder = NoBuilder
  /\ crowd = NoCrowd
  /\ MapViewAtRest
  /\ call = NoCall
  /\ app = NoApp
  /\ geometry = NoGeometry
  /\ heat = NoHeat
  /\ editor = NoEditor

SamplesTaken == LET RECURSIVE Sum(_)
                    Sum(S) == IF S = {} THEN 0
                              ELSE LET c == CHOOSE c \in S : TRUE
                                   IN  reporter.taken[c] + Sum(S \ {c})
                IN  Sum(DOMAIN reporter.taken)

\* A played, sampled frame with `count` runners in the segment.
TakeSample ==
  /\ reporter.phase = "sampling"
  /\ SamplesTaken < MaxSamples
  /\ \E count \in SegmentCrowds :
       reporter' = [reporter EXCEPT
                      !.r = Report(SampleFrame(@, count, ReportSegmentLength), 1,
                                   reporter.averageMode),
                      !.taken[count] = @ + 1]
  /\ UNCHANGED <<mapView, builder, crowd, call, app, geometry, heat, editor>>

\* The average mode is changed and draw reports again.
SwitchMode ==
  /\ reporter.phase = "sampling"
  /\ \E m \in ReportModes \ {reporter.averageMode} :
       reporter' = [reporter EXCEPT !.r = Report(@, 1, m), !.averageMode = m]
  /\ UNCHANGED <<mapView, builder, crowd, call, app, geometry, heat, editor>>

NextReport ==
  \/ TakeSample
  \/ SwitchMode

SpecReport == InitReport /\ [][NextReport]_vars

\* ------------------------------------------------------- properties
Segments == 0 .. segmentCount(props) - 1

\* The statistic reset effect of the last render has run on a route.
Consistent ==
  /\ props.routeData # 0
  /\ \A k \in 1 .. Len(pending) : pending[k] # "reset"

IsZero(arr) == \A i \in DOMAIN arr : arr[i] = 0

\* Every per-segment statistic is zero and the sample queue is empty.
StatisticsClear(r) ==
  /\ IsZero(r.segmentSeen)
  /\ IsZero(r.segmentSumDensity)
  /\ IsZero(r.segmentSampleCount)
  /\ IsZero(r.segmentMaxDensity)
  /\ IsZero(r.segmentNonZeroSum)
  /\ IsZero(r.segmentNonZeroCount)
  /\ IsZero(r.segmentWindowSum)
  /\ IsZero(r.segmentWindowCount)
  /\ IsZero(r.segmentHistCounts)
  /\ IsZero(r.segmentHistTotalNonZero)
  /\ Length(r.windowSamplesRef) = 0

\* The statistics the rewind property speaks of.
Statistics(r) ==
  [seen |-> r.segmentSeen,
   nonZeroSum |-> r.segmentNonZeroSum, nonZeroCount |-> r.segmentNonZeroCount,
   windowSum |-> r.segmentWindowSum, windowCount |-> r.segmentWindowCount,
   queue |-> r.windowSamplesRef,
   hist |-> r.segmentHistCounts, histTotal |-> r.segmentHistTotalNonZero,
   max |-> r.segmentMaxDensity]

\* Every accumulator of lines 426-485.
Accumulators(r) ==
  [statistics |-> Statistics(r),
   sum |-> r.segmentSumDensity, count |-> r.segmentSampleCount,
   lastSample |-> r.lastSampleSimTime]

\* A step that resets the statistics: the reset effect, or a draw that rewinds.
ResetStep ==
  \/ pc = "idle" /\ pending # <<>> /\ Head(pending) = "reset"
  \/ pc = "idle" /\ pc' = "accumulate" /\ Rewinds(refs, props)

\* C1: when a draw finds simTime below the last processed simTime, every
\* per-segment statistic (seen, sum and sample count, max, nonzero sum and
\* count, window sum and count, histogram bins and totals) is zero and the
\* window sample queue is empty before that draw's accumulation runs.
C1_RewindClearsBeforeAccumulation ==
  (pc = "accumulate" /\ Rewinds(refs, props)) => StatisticsClear(refs)

\* A rewinding draw is about to accumulate, and the queue it replaced held
\* samples.
C1_Witness ==
  /\ pc = "accumulate"
  /\ Rewinds(refs, props)
  /\ windowSamples.detached
  /\ Length(windowSamples.arr) > 0
  /\ StatisticsClear(refs)

\* The statistics after one frame at the props p, played from a fresh reset.
FreshlyPlayed(p) ==
  DrawOnce(DrawOnce(StatisticReset(FreshRefs, segmentCount(p)), p), p)

\* Frames at T, T' < T and T again, all played, since the statistics were
\* fresh.
ThereAndBack ==
  /\ Idle
  /\ Consistent
  /\ ~NothingToDraw(props)
  /\ Len(history.trail) = 3
  /\ history.trail[1] = history.trail[3]
  /\ history.trail[2] < history.trail[1]

\* C2: after frames at T, T' < T and T again, played throughout, the seen
\* flags, nonzero sum and count, window sum, count and queue, histogram and
\* max equal those of a single frame at T played from a fresh reset.
C2_RewindProperty ==
  ThereAndBack => Statistics(refs) = Statistics(FreshlyPlayed(props))

RECURSIVE QueueSum(_, _, _)
QueueSum(queue, i, k) ==
  IF k >= Length(queue) THEN 0
  ELSE queue[k].values[i] + QueueSum(queue, i, k + 1)

\* C3: after every frame, for every segment i, segmentWindowCount[i] is the
\* number of queued snapshots whose value for i is nonzero and
\* segmentWindowSum[i] is the sum of those values.
C3_WindowMatchesQueue ==
  (Idle /\ Consistent) =>
    \A i \in Segments :
      /\ refs.segmentWindowCount[i] =
           Cardinality({k \in DOMAIN refs.windowSamplesRef :
                          refs.windowSamplesRef[k].values[i] > 0})
      /\ refs.segmentWindowSum[i] = QueueSum(refs.windowSamplesRef, i, 0)

\* C4: whenever the window average of a segment is reported for a frame at
\* time t, every sample counted in the segment's window sum and count was
\* taken at a time s with t - s <= WINDOW_SECONDS.
C4_WindowHoldsNoOldSample ==
  (/\ Idle
   /\ Consistent
   /\ ~NothingToDraw(props)
   /\ props.averageMode = "window"
   /\ refs.lastTrackedSimTime = props.simTime) =>
    \A i \in Segments :
      (refs.segmentSeen[i] = 1 /\ U32Positive(refs.segmentWindowCount[i])) =>
        \A k \in DOMAIN refs.windowSamplesRef :
          refs.windowSamplesRef[k].values[i] > 0 =>
            props.simTime - refs.windowSamplesRef[k].t <= WindowTicks

\* C5: the active-time average reported for a segment is the sum of its
\* nonzero frame densities over the number of frames with nonzero density,
\* taken over every frame played since the last reset.
C5_ActiveAverageOverEveryFrame ==
  (/\ Idle
   /\ Consistent
   /\ ~NothingToDraw(props)
   /\ props.averageMode = "active_avg") =>
    \A i \in Segments :
      history.count[i] > 0 =>
        refs.avgModeValue[i].n * history.count[i] * DensityDen
          = history.sum[i] * refs.avgModeValue[i].d

C6_MaxIsPlayedMax ==
  Consistent => \A i \in Segments : refs.segmentMaxDensity[i] = history.max[i]

C6_NoDecrease ==
  \/ ResetStep
  \/ \A i \in DOMAIN refs.segmentMaxDensity :
       refs'.segmentMaxDensity[i] >= refs.segmentMaxDensity[i]

\* C6: a segment's max density is the maximum of its frame densities over
\* the frames played since the last reset, and no step other than a reset
\* lowers it.
C6_MaxObserved == [](C6_MaxIsPlayedMax) /\ [][C6_NoDecrease]_vars

\* Two different densities of one segment have been played; the max is the
\* larger and the last frame's was the smaller.
C6_Witness ==
  /\ Idle
  /\ Consistent
  /\ props.playing
  /\ \E i \in Segments :
       /\ history.count[i] >= 2
       /\ refs.segmentMaxDensity[i] = history.max[i]
       /\ Density(Occupancy(props, i), props.segmentLengthMeters) < history.max[i]

C7_SeenIffPlayed ==
  Consistent =>
    \A i \in Segments :
      /\ refs.segmentSeen[i] \in {0, 1}
      /\ refs.segmentSeen[i] = 1 <=> history.count[i] > 0

C7_UnseenHidden ==
  (Idle /\ Consistent) =>
    \A i \in Segments :
      refs.segmentSeen[i] = 0 =>
        /\ RatEq(refs.avgModeValue[i], Zero)
        /\ i \notin stroked

C7_StaysSeen ==
  \/ ResetStep
  \/ \A i \in DOMAIN refs.segmentSeen :
       refs.segmentSeen[i] = 1 => refs'.segmentSeen[i] = 1

\* C7: a segment is seen exactly when some frame played since the last reset
\* had runners in it; no step other than a reset makes a seen segment
\* unseen; an unseen segment reports 0 and is not stroked.
C7_SeenStateMachine ==
  [](C7_SeenIffPlayed /\ C7_UnseenHidden) /\ [][C7_StaysSeen]_vars

\* After a played frame one segment is seen and stroked while another, never
\* occupied, is neither.
C7_Witness ==
  /\ Idle
  /\ Consistent
  /\ \E i, j \in Segments :
       /\ refs.segmentSeen[i] = 1
       /\ i \in stroked
       /\ history.count[i] > 0
       /\ refs.segmentSeen[j] = 0
       /\ j \notin stroked

\* The runners within the density radius of runner k, k itself included.
Neighbours(p, k) ==
  LET rs == RunnersOf(p.runners)
      route == RouteTable[p.routeData]
      At(j) == positionAtDistance(route.points, route.cumdist,
                                  runnerDistanceMeters(rs[j], p.simTime, route.total))
      Gap(a, b) == RatAdd(RatMul(RatSub(a.x, b.x), RatSub(a.x, b.x)),
                          RatMul(RatSub(a.y, b.y), RatSub(a.y, b.y)))
  IN  {j \in DOMAIN rs :
         RatLeq(Gap(At(j), At(k)), RatInt(p.densityRadiusMeters * p.densityRadiusMeters))}

\* The scratch buffers hold the distance, position and proximity density of
\* every runner at the props p.
PositionsOf(r, p) ==
  LET rs == RunnersOf(p.runners)
      route == RouteTable[p.routeData]
  IN  \A k \in DOMAIN rs :
        LET d == runnerDistanceMeters(rs[k], p.simTime, route.total)
            pos == positionAtDistance(route.points, route.cumdist, d)
        IN  /\ RatEq(r.distances[k], d)
            /\ RatEq(r.xs[k], pos.x)
            /\ RatEq(r.ys[k], pos.y)
            /\ RatEq(r.densityPerRunner[k],
                     Rat(Cardinality(Neighbours(p, k)), p.densityRadiusMeters))

C8_PositionsStep ==
  (pc = "idle" /\ pc' = "accumulate" /\ ~props.playing /\ ~Rewinds(refs, props)) =>
    /\ Accumulators(refs') = Accumulators(refs)
    /\ PositionsOf(refs', props)

C8_StatisticsStep ==
  (pc = "accumulate" /\ pc' = "idle" /\ ~props.playing /\ ~Rewinds(refs, props)) =>
    /\ Accumulators(refs') = Accumulators(refs)
    /\ PositionsOf(refs', props)

\* C8: a draw with playing false and simTime not below the last processed
\* simTime changes no accumulator (seen, sums, counts, max, histogram,
\* window sum, count and queue, last sample time) and leaves the positions
\* and proximity densities of the runners at that simTime in the buffers.
C8_PausedFrameKeepsAccumulators == [][C8_PositionsStep /\ C8_StatisticsStep]_vars

\* A paused frame later than the last sample has been drawn over statistics
\* that hold something.
C8_Witness ==
  /\ Idle
  /\ Consistent
  /\ ~NothingToDraw(props)
  /\ ~props.playing
  /\ refs.lastTrackedSimTime = props.simTime
  /\ props.simTime > refs.lastSampleSimTime
  /\ Length(refs.windowSamplesRef) > 0
  /\ \E i \in Segments : refs.segmentSeen[i] = 1
  /\ PositionsOf(refs, props)

\* C9: once the route, the segment length or the runner set has changed,
\* the next draw that gets as far as accumulating finds every per-segment
\* statistic zero, sized for the new segmentation, the sample queue empty
\* and the last sample time and last processed time 0.
C9_ChangeResetsBeforeNextFrame ==
  (pc = "accumulate" /\ history.changed # "no") =>
    /\ StatisticsClear(refs)
    /\ refs.lastSampleSimTime = 0
    /\ refs.lastTrackedSimTime = 0
    /\ \A arr \in {refs.segmentSeen, refs.segmentSumDensity, refs.segmentSampleCount,
                   refs.segmentMaxDensity, refs.segmentNonZeroSum,
                   refs.segmentNonZeroCount, refs.segmentWindowSum,
                   refs.segmentWindowCount, refs.segmentHistTotalNonZero} :
         Length(arr) = segmentCount(props)

\* A playing draw is about to accumulate after a change that found
\* statistics gathered before it.
C9_Witness ==
  /\ pc = "accumulate"
  /\ history.changed = "dirty"
  /\ props.playing
  /\ props.simTime > 0
  /\ StatisticsClear(refs)

\* C10: in the groups the builder returns, no two segments whose separation
\* along the route, |i - j| * segmentLengthMeters, is below
\* max(20, 4 * segmentLengthMeters) have the same group id.
C10_NoNearNeighboursGrouped ==
  builder.phase = "numbered" =>
    \A i, j \in 0 .. builder.segmentCount - 1 :
      (i # j /\ Abs(i - j) * builder.segmentLengthMeters
                  < minRouteSeparationM(builder.segmentLengthMeters)) =>
        builder.groups.segToGroup[i] # builder.groups.segToGroup[j]

\* ------------------------------------------ properties of the groups
BuilderSegments == 0 .. builder.segmentCount - 1

\* Segments i and j of the route under way, as the test of lines 227-240
\* sees them: far enough apart along the route and within the tolerance.
FarAndClose(i, j) ==
  LET l == builder.segmentLengthMeters
      ends == BuilderEnds
      tol == toleranceM(l)
  IN  /\ Abs(i - j) * l >= minRouteSeparationM(l)
      /\ RatLeq(segmentToSegmentDistSq(ends[i].ax, ends[i].ay, ends[i].bx, ends[i].by,
                                       ends[j].ax, ends[j].ay, ends[j].bx, ends[j].by),
                RatInt(tol * tol))

\* C11: any two segments i < j whose separation along the route is at least
\* max(20, 4 * segmentLengthMeters) and whose segment-to-segment distance is
\* within max(1.5, min(5, segmentLengthMeters / 2)) have the same group id.
C11_CloseRemoteSegmentsGrouped ==
  builder.phase = "numbered" =>
    \A i, j \in BuilderSegments :
      (i < j /\ FarAndClose(i, j)) =>
        builder.groups.segToGroup[i] = builder.groups.segToGroup[j]

\* The root of x, found without changing parent.
RECURSIVE Root(_, _)
Root(parent, x) == IF parent[x] = x THEN x ELSE Root(parent, parent[x])

\* C12: every segment has one group id; the ids in use are 0 .. groupCount-1,
\* handed out in the order their first segment comes along the route; two
\* segments share an id exactly when they have the same union-find root.
C12_GroupsArePartition ==
  builder.phase = "numbered" =>
    LET segToGroup == builder.groups.segToGroup
        groupCount == builder.groups.groupCount
        First(g) == CHOOSE i \in BuilderSegments :
                      /\ segToGroup[i] = g
                      /\ \A k \in 0 .. i - 1 : segToGroup[k] # g
    IN  /\ DOMAIN segToGroup = BuilderSegments
        /\ {segToGroup[i] : i \in BuilderSegments} = 0 .. groupCount - 1
        /\ \A g, h \in 0 .. groupCount - 1 : g < h => First(g) < First(h)
        /\ \A i, j \in BuilderSegments :
             segToGroup[i] = segToGroup[j]
               <=> Root(builder.uf.parent, i) = Root(builder.uf.parent, j)

\* The groups are numbered; one group has several segments, another comes
\* after it along the route, and a later segment belongs to the first again.
C12_Witness ==
  /\ builder.phase = "numbered"
  /\ builder.groups.groupCount >= 2
  /\ \E i, j, k \in BuilderSegments :
       /\ i < j /\ j < k
       /\ builder.groups.segToGroup[i] = builder.groups.segToGroup[k]
       /\ builder.groups.segToGroup[j] # builder.groups.segToGroup[i]
       /\ Root(builder.uf.parent, i) = Root(builder.uf.parent, k)

\* ---------------------------------------- properties of the pair loop
Runners == 0 .. crowd.runnerCount - 1

\* The squared distance between runners a and b of the crowd.
GapSq(a, b) ==
  (crowd.xs[a].n - crowd.xs[b].n) * (crowd.xs[a].n - crowd.xs[b].n)
    + (crowd.ys[a].n - crowd.ys[b].n) * (crowd.ys[a].n - crowd.ys[b].n)

\* The runners other than a within the radius of a.
Others(a) == {b \in Runners \ {a} : GapSq(a, b) <= crowd.radius * crowd.radius}

\* n / max(1e-6, radius)
OverRadius(n, radius) == IF radius >= 1 THEN Rat(n, radius) ELSE RatInt(n * 1000000)

\* C19: when the pair loop has finished, the density of every runner i is
\* 1 plus the number of other runners within the radius of i, over
\* max(1e-6, radius); the loop run in one piece gives the same values.
C19_ProximityDensity ==
  crowd.phase = "done" =>
    /\ \A a \in Runners :
         crowd.dens[a] = OverRadius(1 + Cardinality(Others(a)), crowd.radius)
    /\ crowd.dens = ProximityOuter([k \in Runners |-> RatInt(1)], crowd.xs, crowd.ys,
                                   0, crowd.runnerCount, crowd.radius)

\* Three runners, two of them 4 m apart and the third far off, radius 5:
\* the two have density 2/5 and the third 1/5.
C19_Witness ==
  /\ crowd.phase = "done"
  /\ crowd.radius = 5
  /\ crowd.runnerCount = 3
  /\ GapSq(0, 1) = 16
  /\ Others(2) = {}
  /\ crowd.dens[0] = Rat(2, 5)
  /\ crowd.dens[1] = Rat(2, 5)
  /\ crowd.dens[2] = Rat(1, 5)

\* A pair test is taken.
PairStep == crowd.phase = "pairs" /\ crowd.j < crowd.runnerCount

Credited(a) == crowd'.dens[a] = RatAdd(crowd.dens[a], RatInt(1))

C20_PairStep ==
  PairStep =>
    /\ Credited(crowd.i) <=> Credited(crowd.j)
    /\ Credited(crowd.i) <=> GapSq(crowd.i, crowd.j) <= crowd.radius * crowd.radius
    /\ \A k \in Runners \ {crowd.i, crowd.j} : crowd'.dens[k] = crowd.dens[k]

\* C20: the test of a pair i # j credits runner j to runner i's count
\* exactly when it credits runner i to runner j's count.
C20_CountingSymmetric == [][C20_PairStep]_vars

\* The first pair has been tested and both runners were credited, the later
\* runner before its own normalisation.
C20_Witness ==
  /\ crowd.phase = "pairs"
  /\ crowd.i = 0
  /\ crowd.j = 2
  /\ crowd.runnerCount = 3
  /\ GapSq(0, 1) <= crowd.radius * crowd.radius
  /\ GapSq(0, 1) > 0
  /\ crowd.dens[0] = RatInt(2)
  /\ crowd.dens[1] = RatInt(2)

\* ------------------------------------- properties of the reported values
\* The samples of the segment sampled on its own: the frames that found
\* runners in it, each valued at its density count / ReportSegmentLength.
Crowds == {c \in DOMAIN reporter.taken : c > 0 /\ reporter.taken[c] > 0}

RECURSIVE TakenIn(_)
TakenIn(S) ==
  IF S = {} THEN 0
  ELSE LET c == CHOOSE c \in S : TRUE IN reporter.taken[c] + TakenIn(S \ {c})

NonZeroSamples == TakenIn(Crowds)

\* Math.floor(density / HIST_BIN_WIDTH), capped at the last bin (line 468).
BinOfCrowd(c) ==
  Min(HIST_BIN_COUNT - 1, (c * HIST_BINS_PER_UNIT) \div ReportSegmentLength)

\* The samples that lie in bins 0 .. b.
SamplesUpTo(b) == TakenIn({c \in Crowds : BinOfCrowd(c) <= b})

Reported == reporter.r.avgModeValue[0]

Sampling(mode) ==
  /\ reporter.phase = "sampling"
  /\ reporter.averageMode = mode
  /\ NonZeroSamples > 0

\* C15: with total > 0 nonzero samples the reported percentile is
\* min(50, (b + 0.5) * 0.25) for the least bin b at which the samples in
\* bins 0 .. b number at least ceil(0.9 * total); such a bin exists among
\* the HIST_BIN_COUNT bins.
C15_PercentileIsRankBin ==
  Sampling("p90") =>
    LET total == NonZeroSamples
        target == CeilDiv(9 * total, 10)
        reached == {b \in 0 .. HIST_BIN_COUNT - 1 : SamplesUpTo(b) >= target}
    IN  /\ reporter.r.segmentSeen[0] = 1
        /\ reporter.r.segmentHistTotalNonZero[0] = total
        /\ reached # {}
        /\ Reported = Rat(Min(8 * HIST_MAX_VALUE, 2 * SetMin(reached) + 1), 8)

\* Ten samples, nine of them in a low bin and one in the last: the
\* percentile reported is the centre of the low bin.
C15_Witness ==
  /\ Sampling("p90")
  /\ NonZeroSamples = 10
  /\ reporter.taken[1] = 9
  /\ reporter.taken[120] = 1
  /\ Reported = Rat(2 * BinOfCrowd(1) + 1, 8)

\* The sum, in eighths, of the capped bin centres of the k highest samples,
\* taken sample by sample from the largest crowd down.
RECURSIVE TopSamples(_, _)
TopSamples(S, k) ==
  IF S = {} \/ k <= 0 THEN 0
  ELSE LET c == SetMax(S)
           n == Min(k, reporter.taken[c])
       IN  n * Min(8 * HIST_MAX_VALUE, 2 * BinOfCrowd(c) + 1) + TopSamples(S \ {c}, k - n)

\* C16: with total > 0 nonzero samples the reported top-fraction value is
\* the mean of the k = max(1, ceil(0.3 * total)) highest samples, each valued
\* at the capped centre of its bin, and the scan leaves none of the quota k
\* unfilled.
C16_TopFractionIsMeanOfTop ==
  Sampling("top30") =>
    LET total == NonZeroSamples
        k == Max(1, CeilDiv(3 * total, 10))
    IN  /\ reporter.r.segmentSeen[0] = 1
        /\ reporter.r.segmentHistTotalNonZero[0] = total
        /\ Top30Scan(reporter.r.segmentHistCounts, 0, k).remaining = 0
        /\ Reported = Rat(TopSamples(Crowds, k), 8 * k)

\* Ten samples, two in the last bin and eight in a low one: the quota of
\* three takes the last bin whole and one sample of the low bin.
C16_Witness ==
  /\ Sampling("top30")
  /\ NonZeroSamples = 10
  /\ reporter.taken[100] = 2
  /\ reporter.taken[1] = 8
  /\ Reported = Rat(2 * 8 * HIST_MAX_VALUE + 2 * BinOfCrowd(1) + 1, 8 * 3)

InRange(v) == RatLeq(Zero, v) /\ RatLeq(v, RatInt(HIST_MAX_VALUE))

\* C17: the percentile and the top-fraction value of the segment lie in
\* [0, HIST_MAX_VALUE], whichever of them is reported, also when samples
\* above HIST_MAX_VALUE lie in the last bin.
C17_ReportedWithinRange ==
  reporter.phase = "sampling" =>
    /\ InRange(Reported)
    /\ reporter.r.segmentHistTotalNonZero[0] > 0 =>
         /\ InRange(P90Value(reporter.r.segmentHistCounts, 0,
                             reporter.r.segmentHistTotalNonZero[0]))
         /\ InRange(Top30Value(reporter.r.segmentHistCounts, 0,
                               reporter.r.segmentHistTotalNonZero[0]))

\* Every sample is a density of 60 runners per metre, above HIST_MAX_VALUE:
\* the percentile reported is HIST_MAX_VALUE.
C17_Witness ==
  /\ Sampling("p90")
  /\ Crowds = {120}
  /\ reporter.taken[120] >= 2
  /\ HistAt(reporter.r.segmentHistCounts, HIST_BIN_COUNT - 1) = reporter.taken[120]
  /\ Reported = RatInt(HIST_MAX_VALUE)

\* The ranks 1/10, 2/10, ..., 10/10.
Tenths == 1 .. 10

\* The value lines 514-521 give for the rank p / 10.
PercentileAt(p) ==
  Rat(BinCenter8(PercentileScan(reporter.r.segmentHistCounts, 0,
                                CeilDiv(p * reporter.r.segmentHistTotalNonZero[0], 10))),
      2 * HIST_BINS_PER_UNIT)

\* C18: on a histogram with at least one sample, the scan of lines 515-520
\* gives for a rank p1 a value not above the value for a rank p2 > p1.
C18_PercentileMonotone ==
  (reporter.phase = "sampling" /\ reporter.r.segmentHistTotalNonZero[0] > 0) =>
    LET value == [p \in Tenths |-> PercentileAt(p)]
    IN  \A p1, p2 \in Tenths : p1 < p2 => RatLeq(value[p1], value[p2])

\* Samples in three bins: the values for the ranks 1/10, 5/10 and 10/10
\* differ and rise.
C18_Witness ==
  /\ reporter.phase = "sampling"
  /\ reporter.r.segmentHistTotalNonZero[0] = 10
  /\ RatLess(PercentileAt(1), PercentileAt(5))
  /\ RatLess(PercentileAt(5), PercentileAt(10))
  /\ PercentileAt(9) = P90Value(reporter.r.segmentHistCounts, 0, 10)

\* ------------------------------------------ properties of the heat map
GroupsNow == GroupsOf(props)
GroupIds == 0 .. GroupsNow.groupCount - 1

\* draw has run to its end for the props of the last render and has drawn
\* the heat map.
HeatmapDrawn ==
  /\ Idle
  /\ Consistent
  /\ ~NothingToDraw(props)
  /\ HeatmapShown(props)

Members(g) == {i \in Segments : GroupsNow.segToGroup[i] = g}
SeenMembers(g) == {i \in Members(g) : refs.segmentSeen[i] = 1}

\* The per-segment value the heat metric selects (lines 559-562).
SelectedValue(i) ==
  IF props.heatMetric = "average" THEN refs.avgModeValue[i]
  ELSE Rat(refs.segmentMaxDensity[i], DensityDen)

\* C13: after every frame a group is marked seen exactly when one of its
\* segments is seen; its value is the largest selected value (the max in
\* "max" mode, the average-mode value in "average" mode) among its seen
\* segments; a group with no seen segment reports 0 and none of its
\* segments is stroked.
C13_GroupReportsMaxOfSeenMembers ==
  HeatmapDrawn =>
    \A g \in GroupIds :
      /\ refs.groupSeen[g] \in {0, 1}
      /\ refs.groupSeen[g] = 1 <=> SeenMembers(g) # {}
      /\ SeenMembers(g) # {} =>
           /\ \E i \in SeenMembers(g) : RatEq(refs.groupValue[g], SelectedValue(i))
           /\ \A i \in SeenMembers(g) : RatLeq(SelectedValue(i), refs.groupValue[g])
      /\ SeenMembers(g) = {} =>
           /\ RatEq(refs.groupValue[g], Zero)
           /\ Members(g) \cap stroked = {}

\* C14: the statistic reported for a group is computed from the group's
\* observations, one per frame, the observation being the largest density
\* among the group's segments in that frame: in "max" mode the largest
\* observation, in "average" mode with the active-time average the mean of
\* the nonzero observations of the sampled frames.
C14_GroupStatisticOfObservations ==
  HeatmapDrawn =>
    \A i \in Segments :
      LET g == GroupsNow.segToGroup[i]
      IN  /\ (props.heatMetric = "max" /\ history.count[i] > 0) =>
               RatEq(refs.groupValue[g],
                     Rat(SetMax({history.max[j] : j \in Members(g)}), DensityDen))
          /\ (/\ props.heatMetric = "average"
              /\ props.averageMode = "active_avg"
              /\ history.obsCount[i] > 0) =>
               RatEq(refs.groupValue[g],
                     Rat(history.obsSum[i], history.obsCount[i] * DensityDen))

\* ------------------------------------------- properties of occupancy
\* The runners of the last frame whose distance along the route d has
\* i * L <= d < (i + 1) * L.
InSegmentInterval(i) ==
  {k \in 0 .. runnerCount(props) - 1 :
     /\ RatLeq(RatInt(i * props.segmentLengthMeters), refs.distances[k])
     /\ RatLess(refs.distances[k], RatInt((i + 1) * props.segmentLengthMeters))}

\* C21: after every processed (played) frame the occupancy count of every
\* segment i is the number of runners with i * L <= d < (i + 1) * L,
\* runners that have not started (d = 0) and runners that have finished
\* (d = total) included.
C21_OccupancyIsIntervalCount ==
  (Idle /\ Consistent /\ ~NothingToDraw(props) /\ props.playing) =>
    \A i \in Segments : refs.segmentTmpCount[i] = Cardinality(InSegmentInterval(i))

\* ------------------------------ the simulation helpers, call by call
\* SpecSim takes one call of a function of sim.ts or route.ts, or one of
\* the divisions of draw, from its arguments to its result.  A call
\* records the divisor of every division it made.
Called(fn, args) == [fn |-> fn, args |-> args, phase |-> "called"]
Returned(c, result, divisors) ==
  [fn |-> c.fn, args |-> c.args, phase |-> "returned",
   result |-> result, divisors |-> divisors]

\* Arguments of runnerDistanceMeters: times in ticks, lengths in metres.
CallStarts == {0, 4}
CallPaces == {0, 250, 1000}
CallTimes == {-2, 0, 3, 4, 6, 20}
CallLengths == {0, 3, 12}
DistanceCalls ==
  {Called("runnerDistanceMeters",
          [runner |-> NewRunner(s, p), tSec |-> t, routeLenMeters |-> l]) :
     s \in CallStarts, p \in CallPaces, t \in CallTimes, l \in CallLengths}

\* Point lists of 0 to 4 points, repeated points among them.
PointLists ==
  {EmptyArray,
   NewArray(1, Pt(2, 1)),
   Arr2(Pt(0, 0), Pt(3, 0)),
   Arr2(Pt(1, 1), Pt(1, 1)),
   Arr3(Pt(0, 0), Pt(2, 0), Pt(2, 2)),
   Arr3(Pt(0, 0), Pt(0, 0), Pt(2, 0)),
   Arr3(Pt(0, 0), Pt(2, 0), Pt(2, 0)),
   Arr4(Pt(0, 0), Pt(1, 0), Pt(1, 0), Pt(1, 2))}
CallDistances ==
  {RatInt(-1), RatInt(0), Rat(1, 2), RatInt(1), RatInt(2), Rat(5, 2),
   RatInt(3), RatInt(4), RatInt(7)}
PositionCalls ==
  {Called("positionAtDistance",
          [points |-> ps, cumdist |-> buildCumulativeDistances(ps).cumdist,
           dMeters |-> d]) :
     ps \in PointLists, d \in CallDistances}
CumulativeCalls ==
  {Called("buildCumulativeDistances", [points |-> ps]) : ps \in PointLists}

\* Wave lists of 0 to 2 waves: zero and negative counts, inverted and empty
\* pace ranges.
CallCounts == {-1, 0, 1, 2}
CallPaceRanges == {<<300, 400>>, <<400, 300>>, <<360, 360>>}
WaveChoices(k) ==
  {[id |-> k, startTimeSeconds |-> 60 * (k - 1), runnerCount |-> c,
    minPaceSecPerKm |-> r[1], maxPaceSecPerKm |-> r[2]] :
     c \in CallCounts, r \in CallPaceRanges}
WaveLists ==
  {EmptyArray}
    \cup {NewArray(1, w) : w \in WaveChoices(1)}
    \cup {Arr2(v, w) : v \in WaveChoices(1), w \in WaveChoices(2)}
GenerateCalls == {Called("generateRunners", [waves |-> ws]) : ws \in WaveLists}
\* The values Math.random returns, in [0, 1).
Randoms == {RatInt(0), Rat(1, 2), Rat(3, 4)}

CallRadii == {0, 1, 2}
RadiusCalls ==
  {Called("invDensityRadius", [densityRadiusMeters |-> r]) : r \in CallRadii}
CallSegmentLengths == {0, 1, 2}
DensityCalls ==
  {Called("frameDensity", [count |-> c, segmentLengthMeters |-> l]) :
     c \in 0 .. 2, l \in CallSegmentLengths}

\* generateRunners.  new Array(totalCount) has totalCount empty slots: an
\* array is its length and its filled slots.
RECURSIVE ReduceCounts(_, _, _)
ReduceCounts(waves, j, sum) ==
  IF j >= Length(waves) THEN sum
  ELSE ReduceCounts(waves, j + 1, sum + Abs(waves[j].runnerCount))
TotalCountAbs(waves) == ReduceCounts(waves, 0, 0)

RECURSIVE Reduce(_, _, _)
Reduce(waves, j, sum) ==
  IF j >= Length(waves) THEN sum
  ELSE Reduce(waves, j + 1, sum + Max(0, waves[j].runnerCount))
TotalCount(waves) == Reduce(waves, 0, 0)

NewSparse(len) == [length |-> len, at |-> EmptyArray]
Store(arr, index, v) ==
  [length |-> Max(arr.length, index + 1),
   at |-> [k \in DOMAIN arr.at \cup {index} |-> IF k = index THEN v ELSE arr.at[k]]]

\* random lists the values Math.random returns, in the order of the calls.
generateRunners(waves, random) ==
  LET RECURSIVE Inner(_, _, _, _)
      Inner(runners, index, wave, i) ==
        IF i >= wave.runnerCount THEN [runners |-> runners, index |-> index]
        ELSE
          LET minPace == Min(wave.minPaceSecPerKm, wave.maxPaceSecPerKm)
              maxPace == Max(wave.minPaceSecPerKm, wave.maxPaceSecPerKm)
              span == maxPace - minPace
              pace == RatAdd(RatInt(minPace), RatMul(random[index], RatInt(span)))
              runner == [id |-> <<wave.id, i + 1>>,
                         waveId |-> wave.id,
                         startTimeSeconds |-> wave.startTimeSeconds,
                         paceSecPerKm |-> pace]
          IN  Inner(Store(runners, index, runner), index + 1, wave, i + 1)
      RECURSIVE Outer(_, _)
      Outer(s, j) ==
        IF j >= Length(waves) THEN s.runners
        ELSE Outer(Inner(s.runners, s.index, waves[j], 0), j + 1)
  IN  Outer([runners |-> NewSparse(TotalCount(waves)), index |-> 0], 0)

\* Math.max(1e-6, densityRadiusMeters), for a whole radius.
RadiusDivisor(densityRadiusMeters) ==
  IF densityRadiusMeters >= 1 THEN RatInt(densityRadiusMeters) ELSE Rat(1, 1000000)

\* The span positionAtDistance divides by at line 94, when it gets there.
SpanDivisors(points, cumdist, dMeters) ==
  LET n == Length(points)
  IN  IF n < 2 THEN {}
      ELSE
        LET last == RatInt(cumdist[n - 1])
            low == IF RatLeq(dMeters, last) THEN dMeters ELSE last
            clamped == IF RatLeq(RatInt(0), low) THEN low ELSE RatInt(0)
            i == BracketIndex(cumdist, clamped, n)
            span == cumdist[i] - cumdist[i - 1]
        IN  IF span <= 0 THEN {} ELSE {RatInt(span)}

RunnerDistance ==
  /\ call.phase = "called"
  /\ call.fn = "runnerDistanceMeters"
  /\ call' = Returned(call,
                      runnerDistanceMeters(call.args.runner, call.args.tSec,
                                           call.args.routeLenMeters),
                      {RatInt(call.args.runner.paceSecPerKm)})
  /\ UNCHANGED <<mapView, builder, crowd, reporter, app, geometry, heat, editor>>

PositionAt ==
  /\ call.phase = "called"
  /\ call.fn = "positionAtDistance"
  /\ call' = Returned(call,
                      positionAtDistance(call.args.points, call.args.cumdist,
                                         call.args.dMeters),
                      SpanDivisors(call.args.points, call.args.cumdist,
                                   call.args.dMeters))
  /\ UNCHANGED <<mapView, builder, crowd, reporter, app, geometry, heat, editor>>

BuildCumulative ==
  /\ call.phase = "called"
  /\ call.fn = "buildCumulativeDistances"
  /\ call' = Returned(call, buildCumulativeDistances(call.args.points), {})
  /\ UNCHANGED <<mapView, builder, crowd, reporter, app, geometry, heat, editor>>

GenerateRunners ==
  /\ call.phase = "called"
  /\ call.fn = "generateRunners"
  /\ \E random \in [0 .. TotalCount(call.args.waves) - 1 -> Randoms] :
       call' = Returned(call, generateRunners(call.args.waves, random), {})
  /\ UNCHANGED <<mapView, builder, crowd, reporter, app, geometry, heat, editor>>

\* Line 367 of draw.
InverseRadius ==
  /\ call.phase = "called"
  /\ call.fn = "invDensityRadius"
  /\ call' = Returned(call, InvDensityRadius(call.args.densityRadiusMeters),
                      {RadiusDivisor(call.args.densityRadiusMeters)})
  /\ UNCHANGED <<mapView, builder, crowd, reporter, app, geometry, heat, editor>>

\* Line 438 of draw.
FrameDensity ==
  /\ call.phase = "called"
  /\ call.fn = "frameDensity"
  /\ call' = Returned(call, Divide(call.args.count, call.args.segmentLengthMeters),
                      {RatInt(call.args.segmentLengthMeters)})
  /\ UNCHANGED <<mapView, builder, crowd, reporter, app, geometry, heat, editor>>

InitSim ==
  /\ \/ call \in DistanceCalls
     \/ call \in PositionCalls
     \/ call \in CumulativeCalls
     \/ call \in GenerateCalls
     \/ call \in RadiusCalls
     \/ call \in DensityCalls
  /\ builder = NoBuilder
  /\ crowd = NoCrowd
  /\ reporter = NoReporter
  /\ MapViewAtRest
  /\ app = NoApp
  /\ geometry = NoGeometry
  /\ heat = NoHeat
  /\ editor = NoEditor

NextSim ==
  \/ RunnerDistance
  \/ PositionAt
  \/ BuildCumulative
  \/ GenerateRunners
  \/ InverseRadius
  \/ FrameDensity

SpecSim == InitSim /\ [][NextSim]_vars

Returns(fn) == call.phase = "returned" /\ call.fn = fn

\* ------------------------------------ properties of runnerDistanceMeters
\* C22: for a positive pace, every t and every len >= 0,
\* runnerDistanceMeters returns min(len, max(0, t - start) * 1000 / pace):
\* 0 when t <= start, len when the unclamped distance is at least len, and
\* always a value of [0, len].
C22_DistanceIsClampedProduct ==
  (Returns("runnerDistanceMeters") /\ call.args.runner.paceSecPerKm > 0) =>
    LET start == call.args.runner.startTimeSeconds
        len == RatInt(call.args.routeLenMeters)
        unclamped == Rat(Max(0, call.args.tSec - start) * 1000,
                         call.args.runner.paceSecPerKm * TicksPerSecond)
    IN  /\ RatEq(call.result, RatMin(len, unclamped))
        /\ call.args.tSec <= start => call.result = RatInt(0)
        /\ RatLeq(len, unclamped) => call.result = len
        /\ RatLeq(RatInt(0), call.result)
        /\ RatLeq(call.result, len)

C22_FinishedRunnerReturned ==
  /\ Returns("runnerDistanceMeters")
  /\ call.args.runner.paceSecPerKm > 0
  /\ call.args.tSec > call.args.runner.startTimeSeconds
  /\ call.args.routeLenMeters > 0
  /\ RatLess(RatInt(call.args.routeLenMeters),
             Rat((call.args.tSec - call.args.runner.startTimeSeconds) * 1000,
                 call.args.runner.paceSecPerKm * TicksPerSecond))
  /\ call.result = RatInt(call.args.routeLenMeters)

\* ------------------------------------- properties of positionAtDistance
\* dMeters clamped to [0, total].
ClampedDistance(cumdist, dMeters) ==
  LET last == RatInt(cumdist[Length(cumdist) - 1])
  IN  IF RatLess(dMeters, RatInt(0)) THEN RatInt(0)
      ELSE IF RatLess(last, dMeters) THEN last
      ELSE dMeters
\* The least index i >= 1 whose cumulative distance is at least the clamped
\* distance.
LeastIndex(cumdist, clamped) ==
  CHOOSE i \in 1 .. Length(cumdist) - 1 :
    /\ RatLeq(clamped, RatInt(cumdist[i]))
    /\ \A j \in 1 .. i - 1 : RatLess(RatInt(cumdist[j]), clamped)
\* The point at fraction (clamped - d0) / (d1 - d0) of the way from a to b.
Interpolated(a, b, d0, d1, clamped) ==
  LET t == RatMul(RatSub(clamped, RatInt(d0)), Rat(1, d1 - d0))
  IN  [x |-> RatAdd(RatInt(a.x), RatMul(RatInt(b.x - a.x), t)),
       y |-> RatAdd(RatInt(a.y), RatMul(RatInt(b.y - a.y), t))]
RatPoint(p) == [x |-> RatInt(p.x), y |-> RatInt(p.y)]

\* C23: positionAtDistance returns (0, 0) for no points and the point for
\* one point; for n >= 2 points it takes the least index i >= 1 whose
\* cumulative distance is at least the clamped distance and interpolates
\* linearly between points i - 1 and i, or returns point i when the span
\* between them is zero; the index it uses lies inside the arrays.
C23_PositionIsInterpolation ==
  Returns("positionAtDistance") =>
    LET points == call.args.points
        cumdist == call.args.cumdist
        n == Length(points)
    IN  /\ n = 0 => call.result = RatPoint(Pt(0, 0))
        /\ n = 1 => call.result = RatPoint(points[0])
        /\ n >= 2 =>
             LET clamped == ClampedDistance(cumdist, call.args.dMeters)
                 i == LeastIndex(cumdist, clamped)
             IN  /\ BracketIndex(cumdist, clamped, n) = i
                 /\ i - 1 \in DOMAIN points /\ i \in DOMAIN points
                 /\ i - 1 \in DOMAIN cumdist /\ i \in DOMAIN cumdist
                 /\ call.result =
                      IF cumdist[i] = cumdist[i - 1] THEN RatPoint(points[i])
                      ELSE Interpolated(points[i - 1], points[i],
                                        cumdist[i - 1], cumdist[i], clamped)

C23_InterpolatedPastRepeatedPoint ==
  /\ Returns("positionAtDistance")
  /\ Length(call.args.points) = 4
  /\ call.args.points[1] = call.args.points[2]
  /\ call.args.dMeters = Rat(5, 2)
  /\ call.result = [x |-> RatInt(1), y |-> Rat(3, 2)]

\* ------------------------------------------- properties of the divisions
\* C24: no division of the per-frame core has a zero denominator, whatever
\* the radius, the segment length and the pace are, zero included.
C24_NoZeroDivisor ==
  call.phase = "returned" => \A q \in call.divisors : q.n # 0

\* ------------------------------- properties of buildCumulativeDistances
\* C29: for every point list, lists of 0 or 1 points included, the cumdist
\* array buildCumulativeDistances returns has the length of the point list,
\* starts at 0, never decreases, and ends at the returned total.
C29_CumdistMatchesPoints ==
  Returns("buildCumulativeDistances") =>
    LET cumdist == call.result.cumdist
    IN  /\ Length(cumdist) = Length(call.args.points)
        /\ cumdist[0] = 0
        /\ \A i \in 1 .. Length(cumdist) - 1 : cumdist[i - 1] <= cumdist[i]
        /\ cumdist[Length(cumdist) - 1] = call.result.total

\* ------------------------------------------ properties of generateRunners
\* The number of slots of the result before those of wave j, the waves
\* taking max(0, runnerCount) slots each in their order.
RECURSIVE SlotsBefore(_, _)
SlotsBefore(waves, j) ==
  IF j = 0 THEN 0
  ELSE SlotsBefore(waves, j - 1) + Max(0, waves[j - 1].runnerCount)

\* C30: generateRunners returns exactly the sum over the waves of
\* max(0, runnerCount) runners with no empty slot, and every runner carries
\* the id and the start time of its wave and a pace between the smaller and
\* the larger of the wave's two paces, for whole runner counts (zero and
\* negative ones included) and inverted pace ranges.
C30_RunnersOfWaves ==
  Returns("generateRunners") =>
    LET waves == call.args.waves
        runners == call.result
    IN  /\ runners.length = SlotsBefore(waves, Length(waves))
        /\ DOMAIN runners.at = 0 .. runners.length - 1
        /\ \A j \in DOMAIN waves :
             \A k \in 0 .. runners.length - 1 :
               (/\ SlotsBefore(waves, j) <= k
                /\ k < SlotsBefore(waves, j) + Max(0, waves[j].runnerCount)) =>
                 /\ runners.at[k].waveId = waves[j].id
                 /\ runners.at[k].startTimeSeconds = waves[j].startTimeSeconds
                 /\ RatLeq(RatInt(Min(waves[j].minPaceSecPerKm, waves[j].maxPaceSecPerKm)),
                           runners.at[k].paceSecPerKm)
                 /\ RatLeq(runners.at[k].paceSecPerKm,
                           RatInt(Max(waves[j].minPaceSecPerKm, waves[j].maxPaceSecPerKm)))

C30_NegativeAndInvertedWaves ==
  /\ Returns("generateRunners")
  /\ Length(call.args.waves) = 2
  /\ call.args.waves[0].runnerCount < 0
  /\ call.args.waves[1].runnerCount = 2
  /\ call.args.waves[1].minPaceSecPerKm > call.args.waves[1].maxPaceSecPerKm
  /\ call.result.length = 2
  /\ call.result.at[1].waveId = 2
  /\ call.result.at[1].paceSecPerKm = RatInt(375)

\* ------------------------------------- properties of the empty frame
\* The input of a frame that has nothing to show: no route, a route of
\* fewer than two points or without length, or no runners.
EmptyInput(p) ==
  \/ p.routeData = 0
  \/ Length(RoutePoints(p.routeData)) < 2
  \/ RouteOf(p.routeData).total <= 0
  \/ Length(RunnersOf(p.runners)) = 0
\* A step of a frame: its render, or one of the draws that follow a render.
FrameStep ==
  \/ frames' # frames
  \/ pc = "idle" /\ pending # <<>> /\ Head(pending) = "draw"
\* What a frame can record.
Recorded(r) ==
  [accumulators |-> Accumulators(r), lastTracked |-> r.lastTrackedSimTime,
   tmpCount |-> r.segmentTmpCount, avgModeValue |-> r.avgModeValue]

\* C25: a frame delivered with no route, a route of fewer than two points,
\* a total length of zero or less, or no runners is a no-op: it changes no
\* statistic array, no seen flag, no window queue entry, and neither the
\* last-sample time nor the last-processed time.
C25_EmptyFrameIsNoOp ==
  [][(EmptyInput(props') /\ FrameStep) =>
       /\ Recorded(refs') = Recorded(refs)
       /\ pc' = "idle"]_vars

C25_FrameAfterRouteRemoved ==
  /\ Idle
  /\ props.routeData = 0
  /\ props.playing
  /\ refs.lastTrackedSimTime > 0
  /\ props.simTime > refs.lastTrackedSimTime
  /\ \E i \in DOMAIN refs.segmentSeen : refs.segmentSeen[i] = 1

\* ------------------------------------------------------------ the App
\* The state of App (App.tsx lines 134-153) that Play and the two
\* configuration setters read and write.  A number is a rational, NaN,
\* Infinity or NegInfinity.  `last` remembers the last setter call: its
\* argument and the value it found, or the course and text of a call of
\* loadGpxTextForCourse.  Time is in seconds.  SpecSettings is the App under
\* calls of onDensityRadiusChange and onSegmentLengthChange; SpecPlay is the
\* App under Play / Pause, Reset, the time slider, the clock, wave edits and
\* route loads; SpecRun adds Run Example Simulation, whose load of the
\* preset routes resolves in a later step (`example` is "loading" until
\* then).
MaxAppTime == 2
MaxRunId == 3

NegInfinity == [n |-> -1, d |-> 0]
IsFinite(x) == x.d # 0
RatMax(a, b) == IF RatLeq(a, b) THEN b ELSE a
\* Math.round left out.
Unrounded(x) == x
\* Math.round: the nearest whole number, halves upwards.
MathRound(x) == RatInt(RatFloor(RatAdd(x, Rat(1, 2))))

SetterArgs ==
  {NaN, Infinity, NegInfinity, RatInt(0), RatInt(-3), Rat(-5, 2), Rat(1, 2),
   Rat(5, 2), RatInt(7), Rat(41, 2), RatInt(1000)}

\* The wave lists a course is edited to.
WaveSettingIds == {1, 2}
AppWaves(w) ==
  IF w = 1
  THEN NewArray(1, [id |-> 1, startTimeSeconds |-> 0, runnerCount |-> 1,
                    minPaceSecPerKm |-> 300, maxPaceSecPerKm |-> 400])
  ELSE NewArray(1, [id |-> 1, startTimeSeconds |-> 60, runnerCount |-> 2,
                    minPaceSecPerKm |-> 360, maxPaceSecPerKm |-> 360])
CourseNums == {1, 2}

\* A GPX text is whether it is well-formed XML and its trkpt (else rtept)
\* nodes, each with whether both its attributes are finite numbers.  Texts
\* 1 and 2 are the default 5 km and 10 km routes, 3 is a 40 km route, 4 has
\* two nodes of which one has no number, 5 has one node, 6 is not XML.
GpxIds == 1 .. 6
GpxNode(x, y, finite) == [x |-> x, y |-> y, finite |-> finite]
GpxTwoNodes(a, b) == [wellFormed |-> TRUE, nodes |-> Arr2(a, b)]
GpxText(id) ==
  IF id = 1 THEN GpxTwoNodes(GpxNode(0, 0, TRUE), GpxNode(5000, 0, TRUE))
  ELSE IF id = 2 THEN GpxTwoNodes(GpxNode(0, 0, TRUE), GpxNode(10000, 0, TRUE))
  ELSE IF id = 3 THEN GpxTwoNodes(GpxNode(0, 0, TRUE), GpxNode(40000, 0, TRUE))
  ELSE IF id = 4 THEN GpxTwoNodes(GpxNode(0, 0, TRUE), GpxNode(0, 0, FALSE))
  ELSE IF id = 5 THEN [wellFormed |-> TRUE, nodes |-> NewArray(1, GpxNode(0, 0, TRUE))]
  ELSE [wellFormed |-> FALSE, nodes |-> EmptyArray]

\* route.ts lines 5-27: the points, or the Error thrown.
parseGpxToLatLngs(gpxText) ==
  IF ~gpxText.wellFormed
  THEN [threw |-> TRUE, message |-> "Invalid GPX XML file.", points |-> EmptyArray]
  ELSE IF Length(gpxText.nodes) < 2
  THEN [threw |-> TRUE,
        message |-> "GPX must contain at least two trkpt or rtept nodes.",
        points |-> EmptyArray]
  ELSE LET kept == {k \in DOMAIN gpxText.nodes : gpxText.nodes[k].finite}
           Nth(n) == CHOOSE k \in kept : Cardinality({j \in kept : j < k}) = n
       IN  [threw |-> FALSE, message |-> "",
            points |-> [n \in 0 .. Cardinality(kept) - 1 |->
                          Pt(gpxText.nodes[Nth(n)].x, gpxText.nodes[Nth(n)].y)]]

\* A course's routeData is held as the id of the GPX text it was built
\* from; 0 is null.
AppRoute(id) == buildCumulativeDistances(parseGpxToLatLngs(GpxText(id)).points)
NoRoute(id) == id = 0 \/ AppRoute(id).total <= 0

\* Lines 72-81; error "" is null.
createCourse(courseNum) ==
  [id |-> courseNum, selectedDefaultMapUrl |-> 1, routeData |-> 0,
   waves |-> AppWaves(1), runners |-> NewSparse(0), error |-> ""]
\* Lines 83-100.
createDefaultCourses ==
  [c \in CourseNums |->
     IF c = 1 THEN createCourse(1)
     ELSE [createCourse(c) EXCEPT !.selectedDefaultMapUrl = 2, !.waves = AppWaves(2)]]
\* Lines 283-286: the generated runners, their ids prefixed with the course's.
GeneratedFor(course, random) ==
  LET generated == generateRunners(course.waves, random)
  IN  [generated EXCEPT
         !.at = [k \in DOMAIN generated.at |->
                   [generated.at[k] EXCEPT !.id = <<course.id>> \o generated.at[k].id]]]
RandomsFor(waves) == [0 .. TotalCount(waves) - 1 -> Randoms]

InitApp ==
  /\ app = [mounted |-> TRUE,
            densityRadiusMeters |-> RatInt(15),
            segmentLengthMeters |-> RatInt(5),
            last |-> [handler |-> "none", arg |-> RatInt(0), before |-> RatInt(0)],
            simTime |-> 0,
            playing |-> FALSE,
            runId |-> 0,
            courses |-> createDefaultCourses,
            example |-> "none",
            loads |-> 0]
  /\ builder = NoBuilder
  /\ crowd = NoCrowd
  /\ reporter = NoReporter
  /\ MapViewAtRest
  /\ call = NoCall
  /\ geometry = NoGeometry
  /\ heat = NoHeat
  /\ editor = NoEditor

AppStep(new) ==
  /\ app.mounted
  /\ app' = new
  /\ UNCHANGED <<mapView, builder, crowd, reporter, call, geometry, heat, editor>>

\* Lines 472-475.
onDensityRadiusChange ==
  \E radius \in SetterArgs :
    LET called == [app EXCEPT !.last = [handler |-> "onDensityRadiusChange",
                                        arg |-> radius,
                                        before |-> app.densityRadiusMeters]]
    IN  AppStep(IF ~IsFinite(radius) THEN called
                ELSE [called EXCEPT !.densityRadiusMeters =
                        RatMax(RatInt(2), RatMin(RatInt(20), MathRound(radius)))])

\* Lines 487-490.
onSegmentLengthChange ==
  \E value \in SetterArgs :
    LET called == [app EXCEPT !.last = [handler |-> "onSegmentLengthChange",
                                        arg |-> value,
                                        before |-> app.segmentLengthMeters]]
    IN  AppStep(IF ~IsFinite(value) THEN called
                ELSE [called EXCEPT !.segmentLengthMeters =
                        RatMax(RatInt(1), RatMin(RatInt(100), MathRound(value)))])

NextSettings ==
  \/ onDensityRadiusChange
  \/ onSegmentLengthChange

SpecSettings == InitApp /\ [][NextSettings]_vars

\* Lines 274-296.
onPlayPause ==
  IF app.playing
  THEN AppStep([app EXCEPT !.playing = FALSE])
  ELSE IF app.simTime = 0
  THEN /\ app.runId < MaxRunId
       /\ \E random \in [CourseNums -> UNION {RandomsFor(AppWaves(w)) : w \in WaveSettingIds}] :
            /\ \A c \in CourseNums : random[c] \in RandomsFor(app.courses[c].waves)
            /\ AppStep([app EXCEPT
                 !.courses = [c \in CourseNums |->
                    IF NoRoute(app.courses[c].routeData)
                    THEN [app.courses[c] EXCEPT !.runners = NewSparse(0)]
                    ELSE [app.courses[c] EXCEPT
                            !.runners = GeneratedFor(app.courses[c], random[c])]],
                 !.runId = app.runId + 1,
                 !.playing = TRUE])
  ELSE AppStep([app EXCEPT !.playing = TRUE])

\* Math.ceil of a number that is not negative.
RatCeil(x) == (x.n + x.d - 1) \div x.d
\* Lines 152-164: the maxTime memo, in whole seconds.
maxTime(courses) ==
  LET Finishes(course) ==
        {RatAdd(RatInt(course.runners.at[i].startTimeSeconds),
                RatMul(Rat(AppRoute(course.routeData).total, 1000),
                       course.runners.at[i].paceSecPerKm)) :
           i \in DOMAIN course.runners.at}
      finishes ==
        UNION {Finishes(courses[c]) :
                 c \in {k \in DOMAIN courses : ~NoRoute(courses[k].routeData)}}
      maxFinish == IF finishes = {} THEN RatInt(0)
                   ELSE CHOOSE f \in finishes : \A g \in finishes : RatLeq(g, f)
  IN  Max(3600, RatCeil(maxFinish))

\* deltaSeconds * speed of one animation frame: a second, or a long jump
\* of a tab that was in the background.
TickSteps == {1, 3599}
\* Lines 176-193: one animation frame of a playing simulation.
tick(a, step) ==
  IF a.simTime + step >= maxTime(a.courses)
  THEN [a EXCEPT !.simTime = maxTime(a.courses), !.playing = FALSE]
  ELSE [a EXCEPT !.simTime = a.simTime + step]
\* Steps of a second are followed for the first MaxAppTime seconds.
Tick ==
  /\ app.playing
  /\ \E step \in TickSteps :
       /\ step = 1 => app.simTime < MaxAppTime
       /\ AppStep(tick(app, step))

\* Lines 530-533.
onReset == AppStep([app EXCEPT !.playing = FALSE, !.simTime = 0])

\* The values the time slider is dragged to.
SliderTimes == {-1, 1, 3600, 20000}
\* Lines 534-537.
onTimeChange ==
  \E t \in SliderTimes :
    AppStep([app EXCEPT !.playing = FALSE,
                        !.simTime = Max(0, Min(maxTime(app.courses), t))])

\* Lines 463 and 205-213: the wave editor of a course.
setWaves ==
  \E c \in CourseNums, w \in WaveSettingIds :
    AppStep([app EXCEPT !.courses[c].waves = AppWaves(w)])

\* The catch of lines 229-232 also stops the clock.
LoadedStoppingOnError(a, c, gpx) ==
  LET parsed == parseGpxToLatLngs(GpxText(gpx))
  IN  IF parsed.threw
      THEN [a EXCEPT !.courses[c].error = parsed.message, !.playing = FALSE]
      ELSE [a EXCEPT !.courses[c].routeData = gpx,
                     !.courses[c].error = "",
                     !.courses[c].runners = NewSparse(0),
                     !.playing = FALSE,
                     !.simTime = 0,
                     !.runId = a.runId + 1]
\* Lines 215-233: the App after loadGpxTextForCourse(c, GpxText(gpx)).
Loaded(a, c, gpx) ==
  LET parsed == parseGpxToLatLngs(GpxText(gpx))
  IN  IF parsed.threw
      THEN [a EXCEPT !.courses[c].error = parsed.message]
      ELSE [a EXCEPT !.courses[c].routeData = gpx,
                     !.courses[c].error = "",
                     !.courses[c].runners = NewSparse(0),
                     !.playing = FALSE,
                     !.simTime = 0,
                     !.runId = a.runId + 1]

MaxLoads == 1
UploadedGpxIds == {3, 4, 6}
\* Lines 215-233, called when a file has been read or a default route
\* fetched (lines 235-253); `last` remembers the call.
loadGpxTextForCourse ==
  /\ app.runId < MaxRunId
  /\ app.loads < MaxLoads
  /\ \E c \in CourseNums, gpx \in UploadedGpxIds :
       AppStep([Loaded(app, c, gpx) EXCEPT
                  !.loads = app.loads + 1,
                  !.last = [handler |-> "loadGpxTextForCourse",
                            arg |-> RatInt(c), before |-> RatInt(gpx)]])

NextPlay ==
  \/ onPlayPause
  \/ Tick
  \/ onReset
  \/ onTimeChange
  \/ setWaves
  \/ loadGpxTextForCourse

SpecPlay == InitApp /\ [][NextPlay]_vars

\* Lines 102-131: the courses loadPresetCoursesWithRoutes resolves to;
\* fetched[c] tells whether the route of course c could be fetched.
loadPresetCoursesWithRoutes(courses, fetched, random) ==
  [c \in DOMAIN courses |->
     LET parsed == parseGpxToLatLngs(GpxText(courses[c].selectedDefaultMapUrl))
     IN  IF ~fetched[c] \/ parsed.threw
         THEN [courses[c] EXCEPT !.routeData = 0, !.runners = NewSparse(0),
                                 !.error = "Could not load default GPX route."]
         ELSE [courses[c] EXCEPT
                 !.routeData = courses[c].selectedDefaultMapUrl,
                 !.error = "",
                 !.runners = GeneratedFor(courses[c], random[c])]]

\* Lines 298-303: Run Example Simulation is clicked; the load of line 304
\* is under way.
onRunExampleSimulation ==
  /\ app.example = "none"
  /\ AppStep([app EXCEPT !.playing = FALSE, !.simTime = 0,
                         !.example = "loading"])

\* Lines 304-307: the load has resolved.
ExampleLoaded ==
  /\ app.example = "loading"
  /\ app.runId < MaxRunId
  /\ \E fetched \in [CourseNums -> BOOLEAN],
        first \in RandomsFor(createDefaultCourses[1].waves),
        second \in RandomsFor(createDefaultCourses[2].waves) :
       AppStep([app EXCEPT
                  !.courses =
                     loadPresetCoursesWithRoutes(
                       createDefaultCourses, fetched,
                       [c \in CourseNums |-> IF c = 1 THEN first ELSE second]),
                  !.runId = app.runId + 1,
                  !.playing = TRUE,
                  !.example = "none"])

NextRun ==
  \/ NextPlay
  \/ onRunExampleSimulation
  \/ ExampleLoaded

SpecRun == InitApp /\ [][NextRun]_vars

\* ------------------------------------------------ properties of the App
\* C26: after any sequence of calls of the configuration setters with any
\* numbers (NaN, the infinities, zero, negatives and fractions included),
\* densityRadiusMeters is a whole number of [2, 20] and segmentLengthMeters
\* a whole number of [1, 100]; a call with a non-finite argument leaves the
\* stored value as it was.
C26_SettingsStayClamped ==
  app.mounted =>
    /\ app.densityRadiusMeters.d = 1
    /\ app.densityRadiusMeters.n \in 2 .. 20
    /\ app.segmentLengthMeters.d = 1
    /\ app.segmentLengthMeters.n \in 1 .. 100
    /\ (app.last.handler = "onDensityRadiusChange" /\ ~IsFinite(app.last.arg)) =>
         app.densityRadiusMeters = app.last.before
    /\ (app.last.handler = "onSegmentLengthChange" /\ ~IsFinite(app.last.arg)) =>
         app.segmentLengthMeters = app.last.before

C26_FractionRoundedAfterNaN ==
  /\ app.mounted
  /\ app.densityRadiusMeters = RatInt(3)
  /\ app.segmentLengthMeters = RatInt(21)
  /\ app.last.handler = "onSegmentLengthChange"
  /\ app.last.arg = NaN
  /\ app.last.before = RatInt(21)

\* The runner sets generateRunners can return for the waves of a course.
RunnerSetsOf(course) ==
  {GeneratedFor(course, random) : random \in RandomsFor(course.waves)}

\* C27: pressing Play while the simulation is paused sets playing to true
\* with, for every course that has a loaded route (one with a length), a
\* runner set generated from the wave settings of the course at the moment
\* of the click.
C27_PlayGeneratesFromCurrentWaves ==
  [][(app.mounted /\ ~app.playing /\ app'.playing) =>
       \A c \in CourseNums :
         ~NoRoute(app.courses[c].routeData) =>
           app'.courses[c].runners \in RunnerSetsOf(app.courses[c])]_vars

\* ------------------- the geometry memo of the multi-course MapView
\* SpecGeometry follows the memo of src/unnamed/part_002 lines 325-411 on
\* two courses, one segment per step.  The routes of the courses have legs
\* parallel to an axis and whole-metre corners, and the segment lengths of
\* GeometryLengths are those for which every breakpoint is a whole-metre
\* point and overlapToleranceMeters a whole number.  A match distance is
\* half a sum of two square roots: it is held as the pair [p, q] of the
\* squares, and sums are compared exactly.
GeometryLengths == {1, 2, 3, 5}
CourseRouteIds == 1 .. 5
CoursePoints(id) ==
  IF id = 1 THEN Arr2(Pt(0, 0), Pt(8, 0))
  ELSE IF id = 2 THEN Arr2(Pt(8, 1), Pt(0, 1))
  ELSE IF id = 3 THEN Arr4(Pt(0, 0), Pt(4, 0), Pt(4, 2), Pt(0, 2))
  ELSE IF id = 4 THEN Arr2(Pt(1, 0), Pt(7, 0))
  ELSE Arr2(Pt(0, 3), Pt(8, 3))
\* A course's routeData; 0 is a course without a route.
CourseRoute(id) ==
  IF id = 0 THEN [points |-> EmptyArray, cumdist |-> NewArray(1, 0), total |-> 0]
  ELSE buildCumulativeDistances(CoursePoints(id))

\* Lines 336-337.
overlapToleranceMeters(segmentLengthMeters) == Max(2, (segmentLengthMeters * 3) \div 5)
bucketSize(segmentLengthMeters) == Max(2, overlapToleranceMeters(segmentLengthMeters))
\* The own bucket only.
OwnOffset == <<0>>
\* Line 340.
neighborOffsets == <<-1, 0, 1>>

\* Lines 350-364: segment i of a route, in whole metres; midX2 and midY2 are
\* twice midX and midY.
SegmentMetersOf(rd, i, segmentLengthMeters) ==
  LET d0 == i * segmentLengthMeters
      d1 == Min(rd.total, (i + 1) * segmentLengthMeters)
      p0 == positionAtDistance(rd.points, rd.cumdist, RatInt(d0))
      p1 == positionAtDistance(rd.points, rd.cumdist, RatInt(d1))
      x0 == RatFloor(p0.x)
      y0 == RatFloor(p0.y)
      x1 == RatFloor(p1.x)
      y1 == RatFloor(p1.y)
  IN  [x0 |-> x0, y0 |-> y0, x1 |-> x1, y1 |-> y1,
       midX2 |-> x0 + x1, midY2 |-> y0 + y1]

\* Lines 338-339 and 366-367: Math.floor(mid / bucketSize) of both axes.
BucketOf(seg, segmentLengthMeters) ==
  <<seg.midX2 \div (2 * bucketSize(segmentLengthMeters)),
    seg.midY2 \div (2 * bucketSize(segmentLengthMeters))>>

\* sqrt(a.p) + sqrt(a.q) <= sqrt(b.p) + sqrt(b.q), by squaring twice.
SumLeq(a, b) ==
  LET k == (b.p + b.q) - (a.p + a.q)
      u == 4 * a.p * a.q
      v == 4 * b.p * b.q
  IN  IF k >= 0
      THEN \/ u <= v
           \/ u - k * k - v <= 0
           \/ (u - k * k - v) * (u - k * k - v) <= 4 * k * k * v
      ELSE /\ v - u - k * k >= 0
           /\ (v - u - k * k) * (v - u - k * k) >= 4 * k * k * u
\* (sqrt(a.p) + sqrt(a.q)) * 0.5 <= tolerance.
SumWithin(a, tolerance) ==
  LET t == 2 * tolerance
      m == t * t + a.p - a.q
  IN  /\ a.p <= t * t
      /\ a.q <= t * t
      /\ m >= 0
      /\ 4 * t * t * a.p <= m * m

HypotSq(dx, dy) == dx * dx + dy * dy
\* Lines 280-286: the smaller of fwd and rev, to be halved.
segmentMatchDistance(a, b) ==
  LET fwd == [p |-> HypotSq(a.x0 - b.x0, a.y0 - b.y0), q |-> HypotSq(a.x1 - b.x1, a.y1 - b.y1)]
      rev == [p |-> HypotSq(a.x0 - b.x1, a.y0 - b.y1), q |-> HypotSq(a.x1 - b.x0, a.y1 - b.y0)]
  IN  IF SumLeq(fwd, rev) THEN fwd ELSE rev

\* Lines 376-384: the groups of one bucket; best.group = -1 stands for
\* bestDist = Infinity.
RECURSIVE ScanGroups(_, _, _, _, _, _)
ScanGroups(best, groups, gi, segM, groupReps, tolerance) ==
  IF gi >= Length(groups) THEN best
  ELSE
    LET g == groups[gi]
        d == segmentMatchDistance(segM, groupReps[g])
    IN  IF SumWithin(d, tolerance) /\ (best.group < 0 \/ ~SumLeq(best.dist, d))
        THEN ScanGroups([group |-> g, dist |-> d], groups, gi + 1, segM, groupReps, tolerance)
        ELSE ScanGroups(best, groups, gi + 1, segM, groupReps, tolerance)

\* Lines 366-386: the search of the buckets around the segment's own.
BestGroup(geo, segM) ==
  LET l == geo.segmentLengthMeters
      b == BucketOf(segM, l)
      count == Len(neighborOffsets)
      RECURSIVE Around(_, _)
      Around(best, n) ==
        IF n >= count * count THEN best
        ELSE
          LET oy == n \div count
              ox == n % count
              key == <<b[1] + neighborOffsets[ox + 1], b[2] + neighborOffsets[oy + 1]>>
          IN  IF key \in DOMAIN geo.bucketToGroups
              THEN Around(ScanGroups(best, geo.bucketToGroups[key], 0, segM,
                                     geo.groupReps, overlapToleranceMeters(l)),
                          n + 1)
              ELSE Around(best, n + 1)
  IN  Around([group |-> -1, dist |-> [p |-> 0, q |-> 0]], 0)

\* Line 343.
Skipped(rd) == rd.total <= 0 \/ Length(rd.points) < 2
\* Line 345.
CourseSegCount(rd, segmentLengthMeters) == Max(1, CeilDiv(rd.total, segmentLengthMeters))

StartGeometry(courses, segmentLengthMeters) ==
  [phase |-> "building", courses |-> courses,
   segmentLengthMeters |-> segmentLengthMeters, c |-> 0, i |-> 0,
   courseSegmentCounts |-> NewArray(Length(courses), 0),
   entries |-> EmptyArray, groupMembers |-> EmptyArray, groupReps |-> EmptyArray,
   bucketToGroups |-> [key \in {} |-> EmptyArray]]

InitGeometry ==
  /\ geometry \in {StartGeometry(Arr2(a, b), l) :
                      a \in {0} \cup CourseRouteIds, b \in {0} \cup CourseRouteIds,
                      l \in GeometryLengths}
  /\ builder = NoBuilder
  /\ crowd = NoCrowd
  /\ reporter = NoReporter
  /\ MapViewAtRest
  /\ call = NoCall
  /\ app = NoApp
  /\ heat = NoHeat
  /\ editor = NoEditor

Building == geometry.phase = "building" /\ geometry.c < Length(geometry.courses)
CourseUnderWay == CourseRoute(geometry.courses[geometry.c])

\* One pass of the loop of lines 348-409.
PlaceEntry ==
  /\ Building
  /\ ~Skipped(CourseUnderWay)
  /\ geometry.i < CourseSegCount(CourseUnderWay, geometry.segmentLengthMeters)
  /\ LET l == geometry.segmentLengthMeters
         segM == SegmentMetersOf(CourseUnderWay, geometry.i, l)
         bestGroup == BestGroup(geometry, segM).group
         groupIdx == IF bestGroup < 0 THEN Length(geometry.groupMembers) ELSE bestGroup
         key == BucketOf(segM, l)
         member == [courseIdx |-> geometry.c, segIdx |-> geometry.i]
         opened ==
           IF bestGroup >= 0 THEN geometry
           ELSE [geometry EXCEPT
                   !.groupMembers = Push(@, EmptyArray),
                   !.groupReps = Push(@, segM),
                   !.bucketToGroups =
                      [k \in DOMAIN @ \cup {key} |->
                         IF k # key THEN @[k]
                         ELSE IF key \in DOMAIN @ THEN Push(@[key], groupIdx)
                         ELSE NewArray(1, groupIdx)]]
     IN  geometry' =
           [opened EXCEPT
              !.courseSegmentCounts[geometry.c] = CourseSegCount(CourseUnderWay, l),
              !.groupMembers[groupIdx] = Push(@, member),
              !.entries = Push(@, [courseIdx |-> geometry.c, segIdx |-> geometry.i,
                                   groupIdx |-> groupIdx, segM |-> segM]),
              !.i = geometry.i + 1]
  /\ UNCHANGED <<mapView, builder, crowd, reporter, call, app, heat, editor>>

\* Lines 341-343: the next course, after a course's last segment or in
\* place of a course that has no route to cut.
NextCourseOfGeometry ==
  /\ Building
  /\ \/ Skipped(CourseUnderWay)
     \/ geometry.i >= CourseSegCount(CourseUnderWay, geometry.segmentLengthMeters)
  /\ geometry' = [geometry EXCEPT !.c = geometry.c + 1, !.i = 0]
  /\ UNCHANGED <<mapView, builder, crowd, reporter, call, app, heat, editor>>

\* Line 411: the memo returns.
ReturnGeometry ==
  /\ geometry.phase = "building"
  /\ geometry.c >= Length(geometry.courses)
  /\ geometry' = [geometry EXCEPT !.phase = "built"]
  /\ UNCHANGED <<mapView, builder, crowd, reporter, call, app, heat, editor>>

NextGeometry ==
  \/ PlaceEntry
  \/ NextCourseOfGeometry
  \/ ReturnGeometry

SpecGeometry == InitGeometry /\ [][NextGeometry]_vars

\* ------------------------------------ properties of the geometry memo
\* The representatives within the tolerance of segment segM, among all the
\* representatives there are.
RepsWithin(geo, segM) ==
  {g \in DOMAIN geo.groupReps :
     SumWithin(segmentMatchDistance(segM, geo.groupReps[g]),
               overlapToleranceMeters(geo.segmentLengthMeters))}
\* The entry a step has just placed.
PlacedEntry == geometry'.entries[Length(geometry.entries)]

\* C28: each segment joins the group whose representative has the smallest
\* match distance among all the representatives within the tolerance, and
\* starts a new group exactly when no representative is within the
\* tolerance: the search of the 3 x 3 buckets around the segment's midpoint
\* finds what a scan of all the representatives finds.
C28_BucketSearchIsExhaustive ==
  [][(geometry.phase = "building" /\ Length(geometry'.entries) > Length(geometry.entries)) =>
       LET within == RepsWithin(geometry, PlacedEntry.segM)
       IN  IF within = {}
           THEN /\ PlacedEntry.groupIdx = Length(geometry.groupReps)
                /\ Length(geometry'.groupReps) = Length(geometry.groupReps) + 1
           ELSE /\ PlacedEntry.groupIdx \in within
                /\ geometry'.groupReps = geometry.groupReps
                /\ \A h \in within :
                     SumLeq(segmentMatchDistance(PlacedEntry.segM,
                                                 geometry.groupReps[PlacedEntry.groupIdx]),
                            segmentMatchDistance(PlacedEntry.segM,
                                                 geometry.groupReps[h]))]_vars

\* A segment has joined a group whose representative lies in another bucket
\* than its own, with a second representative within the tolerance.
C28_JoinedAcrossBuckets ==
  /\ geometry.phase = "built"
  /\ \E k \in DOMAIN geometry.entries :
       LET e == geometry.entries[k]
           l == geometry.segmentLengthMeters
           rep == geometry.groupReps[e.groupIdx]
       IN  /\ \E j \in 0 .. k - 1 : geometry.entries[j].groupIdx = e.groupIdx
           /\ BucketOf(rep, l) # BucketOf(e.segM, l)
           /\ \E h \in DOMAIN geometry.groupReps :
                /\ h # e.groupIdx
                /\ \E j \in 0 .. k - 1 : geometry.entries[j].groupIdx = h
                /\ SumWithin(segmentMatchDistance(e.segM, geometry.groupReps[h]),
                             overlapToleranceMeters(l))

FrameAccumulators(r) ==
  [sum |-> r.segmentSumDensity, count |-> r.segmentSampleCount,
   nonZeroSum |-> r.segmentNonZeroSum, nonZeroCount |-> r.segmentNonZeroCount,
   hist |-> r.segmentHistCounts, histTotal |-> r.segmentHistTotalNonZero,
   windowSum |-> r.segmentWindowSum, windowCount |-> r.segmentWindowCount,
   queue |-> r.windowSamplesRef]

\* The draw under way is the second one of a render, or the draw of a map
\* move, zoom or resize: draw has already run with these very props.
RepeatedDraw == pc = "accumulate" /\ Len(pending) = 1

\* C32: a draw that runs again with the same simTime and playing = true
\* leaves the density sum, sample count, nonzero sum and count, histogram,
\* window sum and count and the sample queue unchanged.
C32_RepeatedFrameAddsNothing ==
  [][(RepeatedDraw /\ props.playing) =>
       FrameAccumulators(refs') = FrameAccumulators(refs)]_vars

\* ------------------- the statistics of the multi-course MapView
\* The component of part_002 from line 288 on, with its geometry memo
\* computed step by step as above.  simTime is held in microseconds, so
\* that the 1e-6 of line 605 is one unit; the runner dots of lines
\* 571-585 and 665-675 are canvas output and are left out.
MicrosPerTick == 1000000 \div TicksPerSecond
MaxHeatFrames == 3
MaxHeatChanges == 1
HeatTimes == {0, 3, MicrosPerTick - 1, MicrosPerTick}
HeatLengths == {1, 2}
HeatCourse(route, runners) == [routeData |-> route, runners |-> runners]
HeatCourseLists ==
  {Arr2(HeatCourse(1, 2), HeatCourse(2, 1)), Arr2(HeatCourse(1, 2), HeatCourse(0, 0)),
   Arr2(HeatCourse(1, 0), HeatCourse(0, 0))}

\* A runner with its start time and pace in microseconds.
InMicros(runner) ==
  [startTimeSeconds |-> runner.startTimeSeconds * MicrosPerTick,
   paceSecPerKm |-> runner.paceSecPerKm * MicrosPerTick]

RouteIdsOf(courses) == [c \in DOMAIN courses |-> courses[c].routeData]

\* Line 509.
TotalRunners(courses) ==
  LET RECURSIVE Sum(_)
      Sum(c) == IF c >= Length(courses) THEN 0
                ELSE Length(RunnersOf(courses[c].runners)) + Sum(c + 1)
  IN  Sum(0)

\* Lines 541-565: the segment a runner of course c is counted in, and the
\* runners counted in segment i of course c.
HeatSegIdx(h, geo, c, k) ==
  LET rd == CourseRoute(h.courses[c].routeData)
      d == runnerDistanceMeters(InMicros(RunnersOf(h.courses[c].runners)[k]),
                                h.simTime, rd.total)
  IN  Min(geo.courseSegmentCounts[c] - 1,
          Max(0, RatFloor(d) \div h.segmentLengthMeters))
courseTmpCountsOf(h, geo) ==
  [c \in DOMAIN h.courseTmpCounts |->
     [i \in DOMAIN h.courseTmpCounts[c] |->
        IF Skipped(CourseRoute(h.courses[c].routeData)) THEN 0
        ELSE Cardinality({k \in DOMAIN RunnersOf(h.courses[c].runners) :
                            HeatSegIdx(h, geo, c, k) = i})]]

\* Lines 607-612: the runners counted in the members of group g.
CountSum(counts, members) ==
  LET RECURSIVE Sum(_)
      Sum(m) == IF m >= Length(members) THEN 0
                ELSE counts[members[m].courseIdx][members[m].segIdx] + Sum(m + 1)
  IN  Sum(0)

\* A step in either direction counts.
isStep(simTime, lastTracked) == simTime > lastTracked + 1 \/ simTime < lastTracked - 1
\* Line 605.
isForwardStep(simTime, lastTracked) == simTime > lastTracked + 1

\* Lines 423-440: the statistic reset effect.
HeatReset(h, geo) ==
  LET groupCount == Length(geo.groupMembers)
  IN  [h EXCEPT !.segmentNonZeroSum = NewArray(groupCount, 0),
                !.segmentNonZeroCount = NewArray(groupCount, 0),
                !.segmentMaxDensity = NewArray(groupCount, 0),
                !.segmentSeen = NewArray(groupCount, 0),
                !.segmentFrameCount = NewArray(groupCount, 0),
                !.avgValue = NewArray(groupCount, RatInt(0)),
                !.segmentFrameDensity = NewArray(groupCount, 0),
                !.lastTrackedSimTime = 0,
                !.courseTmpCounts =
                   [c \in DOMAIN h.courses |->
                      NewArray(geo.courseSegmentCounts[c], 0)]]

\* Lines 594-601: the reset of a rewind.
HeatRewound(h) ==
  IF h.simTime < h.lastTrackedSimTime
  THEN [h EXCEPT !.segmentNonZeroSum = [g \in DOMAIN @ |-> 0],
                 !.segmentNonZeroCount = [g \in DOMAIN @ |-> 0],
                 !.segmentMaxDensity = [g \in DOMAIN @ |-> 0],
                 !.segmentSeen = [g \in DOMAIN @ |-> 0],
                 !.segmentFrameCount = [g \in DOMAIN @ |-> 0],
                 !.segmentFrameDensity = [g \in DOMAIN @ |-> 0]]
  ELSE h

\* draw from line 538 to line 633: the counts, the rewind reset, the
\* group loop, the last processed time and the averages.
HeatDrawn(h, geo) ==
  LET counts == courseTmpCountsOf(h, geo)
      r == HeatRewound(h)
      forward == isForwardStep(h.simTime, h.lastTrackedSimTime)
      density == [g \in DOMAIN geo.groupMembers |->
                    Density(CountSum(counts, geo.groupMembers[g]),
                            h.segmentLengthMeters)]
      sum == [g \in DOMAIN density |->
                IF forward /\ density[g] > 0
                THEN r.segmentNonZeroSum[g] + density[g]
                ELSE r.segmentNonZeroSum[g]]
      count == [g \in DOMAIN density |->
                  IF forward /\ density[g] > 0
                  THEN r.segmentNonZeroCount[g] + 1
                  ELSE r.segmentNonZeroCount[g]]
  IN  [r EXCEPT
         !.courseTmpCounts = counts,
         !.segmentFrameDensity = density,
         !.segmentFrameCount =
            [g \in DOMAIN density |-> IF forward THEN @[g] + 1 ELSE @[g]],
         !.segmentSeen =
            [g \in DOMAIN density |->
               IF forward /\ density[g] > 0 THEN 1 ELSE @[g]],
         !.segmentNonZeroSum = sum,
         !.segmentNonZeroCount = count,
         !.segmentMaxDensity =
            [g \in DOMAIN density |->
               IF forward /\ density[g] > @[g] THEN density[g] ELSE @[g]],
         !.lastTrackedSimTime = h.simTime,
         !.avgValue =
            [g \in DOMAIN density |->
               IF count[g] > 0 THEN Rat(sum[g], count[g] * DensityDen)
               ELSE RatInt(0)]]

InitHeat ==
  /\ \E courses \in HeatCourseLists, l \in HeatLengths :
       /\ heat = [phase |-> "mounted", courses |-> courses, simTime |-> 0,
                  segmentLengthMeters |-> l, runId |-> 0,
                  segmentNonZeroSum |-> EmptyArray,
                  segmentNonZeroCount |-> EmptyArray,
                  segmentMaxDensity |-> EmptyArray,
                  segmentSeen |-> EmptyArray,
                  segmentFrameCount |-> EmptyArray,
                  avgValue |-> EmptyArray,
                  segmentFrameDensity |-> EmptyArray,
                  lastTrackedSimTime |-> 0,
                  courseTmpCounts |-> EmptyArray,
                  pending |-> <<"reset", "draw", "draw">>,
                  frames |-> 0, changes |-> 0,
                  trail |-> <<>>, cause |-> "mount"]
       /\ geometry = StartGeometry(RouteIdsOf(courses), l)
  /\ builder = NoBuilder
  /\ crowd = NoCrowd
  /\ reporter = NoReporter
  /\ MapViewAtRest
  /\ call = NoCall
  /\ app = NoApp
  /\ editor = NoEditor

HeatIdle == geometry.phase = "built" /\ heat.pending = <<>>

HeatStep(new) ==
  /\ heat' = new
  /\ UNCHANGED <<mapView, builder, crowd, reporter, call, app, geometry, editor>>

\* The parent delivers a frame: a new simTime.  The draw memo changes
\* (lines 677-689) and both effects of lines 691-706 call draw.
HeatFrame ==
  /\ HeatIdle
  /\ heat.frames < MaxHeatFrames
  /\ \E t \in HeatTimes \ {heat.simTime} :
       HeatStep([heat EXCEPT !.simTime = t, !.pending = <<"draw", "draw">>,
                             !.frames = @ + 1, !.cause = "frame"])

\* Line 695: a map move, zoom or resize calls draw.
HeatMapEvent ==
  /\ HeatIdle
  /\ heat.frames < MaxHeatFrames
  /\ HeatStep([heat EXCEPT !.pending = <<"draw">>, !.frames = @ + 1])

\* The parent passes a new courses array or segment length: the geometry
\* memo is computed again (line 421), its courseSegmentCounts is a new
\* array, so the reset effect runs (line 440), and so do both draws.
HeatRender(new, cause) ==
  /\ HeatIdle
  /\ heat.changes < MaxHeatChanges
  /\ heat' = [new EXCEPT !.pending = <<"reset", "draw", "draw">>,
                         !.changes = @ + 1, !.cause = cause]
  /\ geometry' = StartGeometry(RouteIdsOf(new.courses), new.segmentLengthMeters)
  /\ UNCHANGED <<mapView, builder, crowd, reporter, call, app, editor>>

\* App.tsx lines 205-213 and 315-318: a wave field or the selected map of
\* a course is set; setCourses makes a new array and mapCourses a new
\* array of new objects with the same routeData and runners.
setCourseField ==
  \E field \in {"waves", "selectedDefaultMapUrl"} :
    HeatRender([heat EXCEPT !.courses = [c \in DOMAIN @ |-> @[c]]], field)

\* App.tsx lines 215-229: a route is loaded for the second course.
HeatRouteLoaded ==
  \E route \in {2, 5} :
    HeatRender([heat EXCEPT !.courses[1] = HeatCourse(route, 0),
                            !.simTime = 0, !.runId = @ + 1], "route")

\* App.tsx lines 487-490.
HeatSegmentLength ==
  \E l \in HeatLengths \ {heat.segmentLengthMeters} :
    HeatRender([heat EXCEPT !.segmentLengthMeters = l], "segmentLength")

\* App.tsx lines 274-296: Play at simTime 0 generates the runners.
HeatRunnersGenerated ==
  /\ heat.simTime = 0
  /\ \E r \in {1, 2} :
       HeatRender([heat EXCEPT !.courses[0].runners = r, !.runId = @ + 1],
                  "runners")

HeatResetEffect ==
  /\ geometry.phase = "built"
  /\ heat.pending # <<>>
  /\ Head(heat.pending) = "reset"
  /\ HeatStep([HeatReset(heat, geometry) EXCEPT !.pending = Tail(@),
                                                !.trail = <<>>])

\* draw; line 510 returns when there is no runner.
HeatDraw ==
  /\ geometry.phase = "built"
  /\ heat.pending # <<>>
  /\ Head(heat.pending) = "draw"
  /\ HeatStep(IF TotalRunners(heat.courses) <= 0
              THEN [heat EXCEPT !.pending = Tail(@)]
              ELSE [HeatDrawn(heat, geometry) EXCEPT
                      !.pending = Tail(@),
                      !.trail = IF @ # <<>> /\ @[Len(@)] = heat.simTime THEN @
                                ELSE Append(@, heat.simTime)])

NextHeat ==
  \/ HeatFrame
  \/ HeatMapEvent
  \/ setCourseField
  \/ HeatRouteLoaded
  \/ HeatSegmentLength
  \/ HeatRunnersGenerated
  \/ HeatResetEffect
  \/ HeatDraw
  \/ PlaceEntry
  \/ NextCourseOfGeometry
  \/ ReturnGeometry

SpecHeat == InitHeat /\ [][NextHeat]_vars

\* ------------- properties of the multi-course MapView's statistics
HeatStatistics(h) ==
  [frameCount |-> h.segmentFrameCount,
   nonZeroSum |-> h.segmentNonZeroSum, nonZeroCount |-> h.segmentNonZeroCount,
   seen |-> h.segmentSeen, max |-> h.segmentMaxDensity]

\* The density of every group at the simTime of h.
GroupDensities(h, geo) ==
  [g \in DOMAIN geo.groupMembers |->
     Density(CountSum(courseTmpCountsOf(h, geo), geo.groupMembers[g]),
             h.segmentLengthMeters)]

\* The statistics of one frame at the simTime of h, processed from the
\* state the reset effect leaves.
OneFrame(h, geo) ==
  LET density == GroupDensities(h, geo)
      counted == h.simTime > 1
      Flag(b) == IF b THEN 1 ELSE 0
  IN  [frameCount |-> [g \in DOMAIN density |-> Flag(counted)],
       nonZeroSum |-> [g \in DOMAIN density |-> IF counted THEN density[g] ELSE 0],
       nonZeroCount |-> [g \in DOMAIN density |-> Flag(counted /\ density[g] > 0)],
       seen |-> [g \in DOMAIN density |-> Flag(counted /\ density[g] > 0)],
       max |-> [g \in DOMAIN density |-> IF counted THEN density[g] ELSE 0]]

\* The last three simTimes drawn since the reset effect are T, T' and T.
BackAt(trail) ==
  /\ Len(trail) >= 3
  /\ trail[Len(trail)] = trail[Len(trail) - 2]
Earlier(trail) == trail[Len(trail) - 1]

HeatDrawStep ==
  /\ heat.pending # <<>>
  /\ Head(heat.pending) = "draw"
  /\ heat'.pending = Tail(heat.pending)
  /\ TotalRunners(heat.courses) > 0

HistSum(hist, i) ==
  LET cells == {idx \in DOMAIN hist : idx \div HIST_BIN_COUNT = i}
      RECURSIVE Sum(_)
      Sum(left) == IF left = {} THEN 0
                   ELSE LET idx == CHOOSE x \in left : TRUE
                        IN  hist[idx] + Sum(left \ {idx})
  IN  Sum(cells)

\* C34: in every state and for every segment the histogram bins add up to
\* segmentHistTotalNonZero, which equals segmentNonZeroCount, and
\* segmentWindowCount is neither above segmentNonZeroCount nor wrapped
\* below zero.
C34_SampleCountsAgree ==
  \A i \in DOMAIN refs.segmentNonZeroCount :
    /\ HistSum(refs.segmentHistCounts, i) = refs.segmentHistTotalNonZero[i]
    /\ refs.segmentHistTotalNonZero[i] = refs.segmentNonZeroCount[i]
    /\ refs.segmentWindowCount[i] >= 0
    /\ refs.segmentWindowCount[i] <= refs.segmentNonZeroCount[i]

\* C35: from a wave edit or a change of a course's selected map until the
\* next frame or change, the accumulated statistics and the last processed
\* simTime stay as they are.
C35_EditsKeepStatistics ==
  [][heat.cause \in {"waves", "selectedDefaultMapUrl"} =>
       /\ HeatStatistics(heat') = HeatStatistics(heat)
       /\ heat'.lastTrackedSimTime = heat.lastTrackedSimTime]_vars

\* C36: at the step in which the route load of Run Example Simulation
\* resolves, whatever happened while it was under way, the App is playing
\* from simTime 0 with the preset courses and, for every preset course
\* whose route was loaded, runners generated from its waves.
C36_ExampleStartsFromZero ==
  [][(app.example = "loading" /\ app'.example = "none") =>
       /\ app'.playing
       /\ app'.simTime = 0
       /\ \A c \in CourseNums :
            /\ app'.courses[c].id = createDefaultCourses[c].id
            /\ app'.courses[c].waves = createDefaultCourses[c].waves
            /\ app'.courses[c].routeData \in {0, createDefaultCourses[c].selectedDefaultMapUrl}
            /\ app'.courses[c].routeData # 0 =>
                 app'.courses[c].runners \in RunnerSetsOf(createDefaultCourses[c])]_vars

\* C37: in every state of the App 0 <= simTime <= maxTime, and a step of
\* the clock moves simTime forward, to exactly maxTime with playing false
\* when it would reach or pass maxTime.
C37_SimTimeWithinMaxTime ==
  app.mounted => (0 <= app.simTime /\ app.simTime <= maxTime(app.courses))

\* ------------------------------------------------------ WaveEditor.tsx
\* The editor of one course's waves.  A wave id `wave-n` is held as n; the
\* setWaves prop (App.tsx line 463) stores the list in the course, and the
\* editor is rendered again with it.
MaxWaves == 4

KmPerMile == Rat(1609344, 1000000)
paceFromMinMile(minutes, seconds) ==
  Rat((minutes * 60 + seconds) * KmPerMile.d, KmPerMile.n)

Wave(id, start, count, minPace, maxPace) ==
  [id |-> id, startTimeSeconds |-> start, runnerCount |-> count,
   minPaceSecPerKm |-> minPace, maxPaceSecPerKm |-> maxPace]

\* App.tsx lines 37-59.
DEFAULT_WAVES ==
  Arr3(Wave(1, 600, 89, paceFromMinMile(5, 51), paceFromMinMile(8, 30)),
       Wave(2, 900, 158, paceFromMinMile(8, 31), paceFromMinMile(11, 0)),
       Wave(3, 1200, 462, paceFromMinMile(11, 0), paceFromMinMile(20, 0)))

\* The waves of the second default course (App.tsx lines 88-96).
SecondCourseWaves ==
  NewArray(1, Wave(1, 0, 450, DEFAULT_WAVES[0].minPaceSecPerKm,
                   DEFAULT_WAVES[0].maxPaceSecPerKm))

\* The numbers typed into the Start and Runner count inputs.
TypedNumbers == {0}
NumberFields == {"startTimeSeconds", "runnerCount"}

\* Lines 8-15.
updateWaveField(waves, waveId, key, value) ==
  [i \in DOMAIN waves |->
     IF waves[i].id = waveId THEN [waves[i] EXCEPT ![key] = value] ELSE waves[i]]

\* Lines 37-49: the array addWave hands to setWaves.
WithNewWave(waves) ==
  Push(waves, Wave(Length(waves) + 1, Length(waves) * 120, 100,
                   RatInt(280), RatInt(420)))

\* waves.filter((w) => w.id !== waveId) (line 52), over the first n waves.
RECURSIVE WithoutWave(_, _, _)
WithoutWave(waves, waveId, n) ==
  IF n = 0 THEN EmptyArray
  ELSE IF waves[n - 1].id # waveId
       THEN Push(WithoutWave(waves, waveId, n - 1), waves[n - 1])
       ELSE WithoutWave(waves, waveId, n - 1)

InitWaves ==
  /\ editor \in {[phase |-> "shown", waves |-> DEFAULT_WAVES],
                 [phase |-> "shown", waves |-> SecondCourseWaves]}
  /\ MapViewAtRest
  /\ builder = NoBuilder
  /\ crowd = NoCrowd
  /\ reporter = NoReporter
  /\ call = NoCall
  /\ app = NoApp
  /\ geometry = NoGeometry
  /\ heat = NoHeat

\* setWaves: the parent stores the list and renders the editor with it.
EditorStep(waves) ==
  /\ editor.phase = "shown"
  /\ editor' = [editor EXCEPT !.waves = waves]
  /\ UNCHANGED <<mapView, builder, crowd, reporter, call, app, geometry, heat>>

\* A click of Add wave (lines 37-49).
addWave ==
  /\ editor.phase = "shown"
  /\ Length(editor.waves) < MaxWaves
  /\ EditorStep(WithNewWave(editor.waves))

\* A click of the enabled Remove button of a wave card (lines 51-53, 179-185).
removeWave ==
  /\ editor.phase = "shown"
  /\ Length(editor.waves) # 1
  /\ \E i \in DOMAIN editor.waves :
       EditorStep(WithoutWave(editor.waves, editor.waves[i].id, Length(editor.waves)))

\* A number typed into the Start or Runner count input of a wave card
\* (lines 66-88).
onChange ==
  /\ editor.phase = "shown"
  /\ \E i \in DOMAIN editor.waves, key \in NumberFields, value \in TypedNumbers :
       EditorStep(updateWaveField(editor.waves, editor.waves[i].id, key, value))

NextWaves ==
  \/ addWave
  \/ removeWave
  \/ onChange

SpecWaves == InitWaves /\ [][NextWaves]_vars

WaveIds(waves) == {waves[i].id : i \in DOMAIN waves}

\* C38: under Add wave and Remove, from waves with distinct ids, the ids of
\* the waves stay pairwise distinct and the list of waves is never empty (so
\* that a Remove deletes one wave and an edit changes one wave).
C38_WaveIdsStayDistinct ==
  editor.phase = "shown" =>
    /\ Cardinality(WaveIds(editor.waves)) = Length(editor.waves)
    /\ Length(editor.waves) >= 1

\* A step that is one call of loadGpxTextForCourse.
IsLoad == app.mounted /\ app'.mounted /\ app'.loads = app.loads + 1

\* C39: a call of loadGpxTextForCourse whose text does not parse changes the
\* error message of that course and nothing else (its route and runners,
\* the other courses, simTime, playing and runId stay); a call whose text
\* parses gives that course the new route, no error and no runners, leaves
\* the other courses alone, and sets playing false, simTime 0 and runId one
\* higher.
C39_FailedLoadChangesOnlyError ==
  [][IsLoad =>
       LET c == app'.last.arg.n
           gpx == app'.last.before.n
           then == app'.courses[c]
           before == app.courses[c]
       IN  /\ \A o \in CourseNums \ {c} : app'.courses[o] = app.courses[o]
           /\ then.id = before.id /\ then.waves = before.waves
           /\ then.selectedDefaultMapUrl = before.selectedDefaultMapUrl
           /\ IF parseGpxToLatLngs(GpxText(gpx)).threw
              THEN /\ then.error # ""
                   /\ then.routeData = before.routeData
                   /\ then.runners = before.runners
                   /\ app'.simTime = app.simTime
                   /\ app'.playing = app.playing
                   /\ app'.runId = app.runId
              ELSE /\ then.routeData = gpx
                   /\ then.error = ""
                   /\ then.runners = NewSparse(0)
                   /\ app'.playing = FALSE
                   /\ app'.simTime = 0
                   /\ app'.runId = app.runId + 1]_vars

\* A text that does not parse was loaded for a course that has a route and
\* runners, while the clock runs: the course shows the error and the clock
\* still runs.
C39_FailedLoadWhilePlaying ==
  /\ app.mounted
  /\ app.last.handler = "loadGpxTextForCourse"
  /\ app.loads = 1
  /\ parseGpxToLatLngs(GpxText(app.last.before.n)).threw
  /\ app.courses[app.last.arg.n].error # ""
  /\ app.courses[app.last.arg.n].routeData # 0
  /\ app.courses[app.last.arg.n].runners.length > 0
  /\ app.playing
  /\ app.simTime > 0

====
